---- MODULE Spec2Model ----
(***************************************************************************)
(* Memento: the knowledge-graph store (entities, observations, relations, *)
(* observation vectors) and the KnowledgeGraphManager operations that      *)
(* mutate it, over the SQLite and the PostgreSQL repository.               *)
(*                                                                         *)
(* Every "await" of the JavaScript source is one step of a caller: the     *)
(* event loop may run another caller's step between two awaits.            *)
(***************************************************************************)
EXTENDS Integers, Sequences, FiniteSets, Bags, TLC

(***************************************************************************)
(* Bounds of the model.                                                    *)
(***************************************************************************)
MaxEntityId == 2
MaxObsId == 2

Procs == {1, 2}
Backends == {"sqlite", "postgres"}
Names == {"a", "b"}
Contents == {"x", "y"}
RelationTypes == {"r"}

\* getEntityId's "no such row" (ids are assigned from 1)
Null == 0


(***************************************************************************)
(* Schema: the constraints the tables are created with.                    *)
(***************************************************************************)
\* (mutant) the entities table created without UNIQUE on name
EntitiesNameNotUnique == FALSE

\* entities.name TEXT UNIQUE NOT NULL
EntitiesNameUnique == TRUE
\* observations UNIQUE(entity_id, content)
ObservationsUnique == TRUE
\* relations UNIQUE(from_id, to_id, relationType)
RelationsUnique == TRUE
\* PRAGMA foreign_keys=ON; REFERENCES entities(id) ON DELETE CASCADE
ForeignKeysOn == TRUE

\* Does obs_vec reference entities(id) ON DELETE CASCADE?  PostgreSQL's
\* obs_vec table does; SQLite's obs_vec is a vec0 virtual table, which
\* carries no foreign key.
ObsVecCascades(b) == b = "postgres"

\* The embedding provider: a pure function of the text.
Embed(text) == <<"vec", text>>

EmptyDb ==
    [entities |-> {}, observations |-> {}, relations |-> EmptyBag,
     obs_vec |-> {}, nextEntityId |-> 1, nextObsId |-> 1, stats |-> <<>>]

Ok(d, ret) == [db |-> d, err |-> "", ret |-> ret]
Fail(d, e) == [db |-> d, err |-> e, ret |-> Null]

EntityIds(d) == {e.id : e \in d.entities}

(***************************************************************************)
(* Repository statements.  Each takes the database and returns the new     *)
(* database, the value returned and the error raised ("" when none).       *)
(***************************************************************************)
getEntityId(d, name) ==
    LET rows == {e \in d.entities : e.name = name}
    IN  IF rows = {} THEN Null ELSE (CHOOSE e \in rows : TRUE).id

createEntity(d, name, entityType) ==
    IF EntitiesNameUnique /\ \E e \in d.entities : e.name = name
    THEN Fail(d, "UNIQUE entities.name")
    ELSE Ok([d EXCEPT !.entities = @ \cup {[id |-> d.nextEntityId, name |-> name,
                                           entityType |-> entityType]},
                      !.nextEntityId = @ + 1],
            d.nextEntityId)

\* PostgreSQL getOrCreateEntityId's statement:
\* INSERT ... ON CONFLICT(name) DO UPDATE SET entitytype = EXCLUDED.entitytype
upsertEntity(d, name, entityType) ==
    LET rows == {e \in d.entities : e.name = name}
    IN  IF EntitiesNameUnique /\ rows # {}
        THEN Ok([d EXCEPT !.entities =
                    {IF e.name = name THEN [e EXCEPT !.entityType = entityType] ELSE e
                        : e \in @}],
                (CHOOSE e \in rows : TRUE).id)
        ELSE createEntity(d, name, entityType)

\* (mutant) a plain INSERT that no conflict clause guards and no constraint stops
insertObservationAgain(d, entityId, content) ==
    IF ForeignKeysOn /\ entityId \notin EntityIds(d)
    THEN Fail(d, "FOREIGN KEY observations.entity_id")
    ELSE Ok([d EXCEPT !.observations = @ \cup {[id |-> d.nextObsId,
                                               entity_id |-> entityId,
                                               content |-> content]},
                      !.nextObsId = @ + 1],
            [inserted |-> TRUE, observationId |-> d.nextObsId])

\* INSERT OR IGNORE / ON CONFLICT DO NOTHING; ret is {inserted, observationId}
insertObservation(d, entityId, content) ==
    LET rows == {o \in d.observations : o.entity_id = entityId /\ o.content = content}
    IN  IF ForeignKeysOn /\ entityId \notin EntityIds(d)
        THEN Fail(d, "FOREIGN KEY observations.entity_id")
        ELSE IF ObservationsUnique /\ rows # {}
        THEN Ok(d, [inserted |-> FALSE, observationId |-> (CHOOSE o \in rows : TRUE).id])
        ELSE Ok([d EXCEPT !.observations = @ \cup {[id |-> d.nextObsId,
                                                   entity_id |-> entityId,
                                                   content |-> content]},
                          !.nextObsId = @ + 1],
                [inserted |-> TRUE, observationId |-> d.nextObsId])

\* INSERT OR REPLACE INTO obs_vec / ON CONFLICT(observation_id) DO UPDATE
putVector(vecs, row) ==
    {v \in vecs : v.observation_id # row.observation_id} \cup {row}

putVectors(vecs, rows) ==
    {v \in vecs : \A r \in rows : r.observation_id # v.observation_id} \cup rows

\* (mutant) reports a created row also when the triple was already stored
createRelationAlwaysTrue(d, fromId, toId, relationType) ==
    IF ForeignKeysOn /\ ~({fromId, toId} \subseteq EntityIds(d))
    THEN Fail(d, "FOREIGN KEY relations")
    ELSE IF RelationsUnique
            /\ BagIn([from_id |-> fromId, to_id |-> toId, relationType |-> relationType],
                     d.relations)
    THEN Ok(d, TRUE)
    ELSE Ok([d EXCEPT !.relations = @ (+) SetToBag({[from_id |-> fromId, to_id |-> toId,
                                                     relationType |-> relationType]})],
            TRUE)

\* INSERT OR IGNORE / ON CONFLICT DO NOTHING; ret is "a row was created"
createRelation(d, fromId, toId, relationType) ==
    LET row == [from_id |-> fromId, to_id |-> toId, relationType |-> relationType]
    IN  IF ForeignKeysOn /\ ~({fromId, toId} \subseteq EntityIds(d))
        THEN Fail(d, "FOREIGN KEY relations")
        ELSE IF RelationsUnique /\ BagIn(row, d.relations)
        THEN Ok(d, FALSE)
        ELSE Ok([d EXCEPT !.relations = @ (+) SetToBag({row})], TRUE)

RestrictBag(B, keep(_)) ==
    LET S == {r \in BagToSet(B) : keep(r)} IN [r \in S |-> B[r]]

\* DELETE FROM entities WHERE name IN (...), with the cascades of the schema
deleteEntities(b, d, names) ==
    LET gone == {e.id : e \in {e \in d.entities : e.name \in names}}
        casc == ForeignKeysOn
    IN  [d EXCEPT
          !.entities = {e \in @ : e.name \notin names},
          !.observations = IF casc THEN {o \in @ : o.entity_id \notin gone} ELSE @,
          !.relations = IF casc
                        THEN RestrictBag(@, LAMBDA r : r.from_id \notin gone
                                                       /\ r.to_id \notin gone)
                        ELSE @,
          !.obs_vec = IF casc /\ ObsVecCascades(b)
                      THEN {v \in @ : v.entity_id \notin gone} ELSE @]

\* DELETE FROM relations WHERE from_id = ? AND to_id = ? AND relationType = ?
deleteRelation(d, fromId, toId, relationType) ==
    [d EXCEPT !.relations =
        RestrictBag(@, LAMBDA r : ~(r.from_id = fromId /\ r.to_id = toId
                                    /\ r.relationType = relationType))]

\* DELETE FROM observations WHERE entity_id = ? AND content IN (...)
deleteObservations(d, entityId, observations) ==
    IF Len(observations) = 0 THEN d
    ELSE [d EXCEPT !.observations =
            {o \in @ : ~(o.entity_id = entityId
                         /\ \E n \in 1..Len(observations) : observations[n] = o.content)}]


(***************************************************************************)
(* GraphCache (context-manager.js): adjacency lists and distances, cached  *)
(* until cacheExpiry.  An entry also records when it was cached (at), a    *)
(* history value no operation reads.                                       *)
(*                                                                         *)
(* An entity id reaches the ContextManager as a number (a row's id column) *)
(* or as a string (String(id), id.toString()).  JavaScript keeps the two   *)
(* apart in ===, in Set.has and in Map keys, and prints them alike in a    *)
(* template string.  The string form of the id n is written -n here.       *)
(***************************************************************************)
\* String(id), id.toString(), `${id}`
String(id) == IF id > 0 THEN -id ELSE id

\* Number(id), and the value an SQL statement compares a parameter by
Number(id) == IF id < 0 THEN -id ELSE id

\* the null that stands for "no distance"
NullDistance == -1

\* 5 * 60 * 1000 ms, in ticks of the model's clock
CacheTtl == 1

\* new GraphCache() and clear(): #cacheExpiry = Date.now() + 5 * 60 * 1000
clear(t) == [adjacency |-> {}, distance |-> {}, cacheExpiry |-> t + CacheTtl]

\* isValid(): Date.now() < this.#cacheExpiry
isValid(c, t) == t < c.cacheExpiry

\* the entry under the key `${from}:${to}`
DistanceEntries(c, from, to) ==
    {e \in c.distance : e.from = String(from) /\ e.to = String(to)}

\* getDistance(from, to): the cached value, null when nothing is cached
getDistance(c, from, to) ==
    IF DistanceEntries(c, from, to) = {} THEN NullDistance
    ELSE (CHOOSE e \in DistanceEntries(c, from, to) : TRUE).distance

\* setDistance(from, to, distance)
setDistance(c, from, to, distance, t) ==
    [c EXCEPT !.distance = {e \in @ : ~(e.from = String(from) /\ e.to = String(to))}
                           \cup {[from |-> String(from), to |-> String(to),
                                  distance |-> distance, at |-> t]}]

AdjacentEntries(c, entityId) == {e \in c.adjacency : e.id = entityId}

\* getAdjacent(entityId) found a set
hasAdjacent(c, entityId) == AdjacentEntries(c, entityId) # {}

\* getAdjacent(entityId)
getAdjacent(c, entityId) == (CHOOSE e \in AdjacentEntries(c, entityId) : TRUE).connections

\* setAdjacent(entityId, connections)
setAdjacent(c, entityId, connections, t) ==
    [c EXCEPT !.adjacency = {e \in @ : e.id # entityId}
                            \cup {[id |-> entityId, connections |-> connections, at |-> t]}]

\* SELECT from_id, to_id FROM relations WHERE from_id IN (...) OR to_id IN (...)
getRelationsForEntityIds(d, entityIds) ==
    {[from_id |-> r.from_id, to_id |-> r.to_id] :
        r \in {q \in BagToSet(d.relations) :
                  \E id \in entityIds : q.from_id = Number(id) \/ q.to_id = Number(id)}}

\* the ids at either end of the rows
Endpoints(rows) == {r.from_id : r \in rows} \cup {r.to_id : r \in rows}

\* rel.from_id.toString() and rel.to_id.toString() of the rows
EndpointStrings(rows) == {String(id) : id \in Endpoints(rows)}

\* preloadGraphSubset: the adjacencyMap one level builds from the rows it
\* fetched: an empty Set for every id of the level, and the rows' ends, as
\* strings, connected to each other
LevelAdjacency(currentLevel, rows) ==
    [id \in currentLevel \cup EndpointStrings(rows) |->
        {String(r.to_id) : r \in {q \in rows : String(q.from_id) = id}}
        \cup {String(r.from_id) : r \in {q \in rows : String(q.to_id) = id}}]

RECURSIVE SetAllAdjacent(_, _, _, _)
\* for (const [entityId, connections] of adjacencyMap) setAdjacent(entityId, connections)
SetAllAdjacent(c, adjacencyMap, ids, t) ==
    IF ids = {} THEN c
    ELSE LET id == CHOOSE x \in ids : TRUE
         IN  SetAllAdjacent(setAdjacent(c, id, adjacencyMap[id], t), adjacencyMap,
                            ids \ {id}, t)

RECURSIVE PreloadLevels(_, _, _, _, _, _)
\* preloadGraphSubset: for (let d = 0; d < depth; d++) { ... }
PreloadLevels(c, d, toProcess, processed, levels, t) ==
    IF levels = 0 THEN c
    ELSE LET rows == getRelationsForEntityIds(d, toProcess)
             adjacencyMap == LevelAdjacency(toProcess, rows)
         IN  PreloadLevels(SetAllAdjacent(c, adjacencyMap, DOMAIN adjacencyMap, t), d,
                           EndpointStrings(rows) \ processed,
                           processed \cup DOMAIN adjacencyMap, levels - 1, t)

\* ContextManager.preloadGraphSubset(entityIds, depth)
preloadGraphSubset(c, d, entityIds, depth, t) ==
    IF entityIds = {} THEN c
    ELSE PreloadLevels(IF isValid(c, t) THEN c ELSE clear(t), d, entityIds, {}, depth, t)

Min(a, b) == IF a < b THEN a ELSE b

RECURSIVE SetToSeq(_)
\* the members of a Set in the order the for-of loop takes them
SetToSeq(S) ==
    IF S = {} THEN <<>>
    ELSE LET m == CHOOSE x \in S : \A y \in S : Number(x) <= Number(y)
         IN  <<m>> \o SetToSeq(S \ {m})

\* the rows of one entity, as the connections of that entity
FetchConnections(d, entityId) ==
    LET rows == getRelationsForEntityIds(d, {entityId})
    IN  {String(r.to_id) : r \in {q \in rows : String(q.from_id) = String(entityId)}}
        \cup {String(r.from_id) : r \in {q \in rows : String(q.to_id) = String(entityId)}}

RECURSIVE Bfs(_, _, _, _, _, _, _, _, _)
\* calculateGraphDistance: while (queue.length > 0) { ... }; the result is the
\* returned distance, the cache afterwards, and the time the oldest cache
\* entry it read was cached at
Bfs(c, d, from, to, maxDepth, queue, visited, t, oldest) ==
    IF queue = <<>> \/ Head(queue).depth >= maxDepth
    THEN [ret |-> NullDistance, cache |-> setDistance(c, from, to, NullDistance, t),
          oldest |-> oldest]
    ELSE LET entityId == Head(queue).entityId
             depth == Head(queue).depth
             hit == hasAdjacent(c, entityId)
             connections == IF hit THEN getAdjacent(c, entityId)
                            ELSE FetchConnections(d, entityId)
             c2 == IF hit THEN c ELSE setAdjacent(c, entityId, connections, t)
             old2 == IF hit
                     THEN Min(oldest, (CHOOSE e \in AdjacentEntries(c, entityId) : TRUE).at)
                     ELSE oldest
             fresh == SetToSeq(connections \ visited)
         IN  IF to \in connections
             THEN [ret |-> depth + 1,
                   cache |-> setDistance(setDistance(c2, from, to, depth + 1, t),
                                         to, from, depth + 1, t),
                   oldest |-> old2]
             ELSE Bfs(c2, d, from, to, maxDepth,
                      Tail(queue) \o [n \in 1..Len(fresh) |->
                                        [entityId |-> fresh[n], depth |-> depth + 1]],
                      visited \cup connections, t, old2)

\* ContextManager.calculateGraphDistance(fromEntityId, toEntityId, maxDepth)
calculateGraphDistance(c, d, from, to, maxDepth, t) ==
    IF from = to THEN [ret |-> 0, cache |-> c, oldest |-> t]
    ELSE IF getDistance(c, from, to) # NullDistance
    THEN [ret |-> getDistance(c, from, to), cache |-> c,
          oldest |-> (CHOOSE e \in DistanceEntries(c, from, to) : TRUE).at]
    ELSE Bfs(c, d, from, to, maxDepth, <<[entityId |-> from, depth |-> 0]>>, {from}, t, t)


RECURSIVE DistancePairs(_, _, _, _, _, _, _)
\* calculateGraphDistanceBatch: for (fromId of fromIds) for (toId of toIds)
\* results.set(`${fromId}:${toId}`, await calculateGraphDistance(...))
DistancePairs(c, d, pairs, maxDepth, t, results, oldest) ==
    IF pairs = <<>> THEN [ret |-> results, cache |-> c, oldest |-> oldest]
    ELSE LET one == calculateGraphDistance(c, d, Head(pairs)[1], Head(pairs)[2], maxDepth, t)
         IN  DistancePairs(one.cache, d, Tail(pairs), maxDepth, t,
                           {e \in results : ~(e.from = String(Head(pairs)[1])
                                               /\ e.to = String(Head(pairs)[2]))}
                           \cup {[from |-> String(Head(pairs)[1]),
                                  to |-> String(Head(pairs)[2]), distance |-> one.ret]},
                           Min(oldest, one.oldest))

RECURSIVE PairsOf(_, _)
PairsOf(fromIds, toIds) ==
    IF fromIds = <<>> THEN <<>>
    ELSE [n \in 1..Len(toIds) |-> <<Head(fromIds), toIds[n]>>] \o PairsOf(Tail(fromIds), toIds)

SeqRange(s) == {s[n] : n \in 1..Len(s)}

\* ContextManager.calculateGraphDistanceBatch(fromIds, toIds, maxDepth)
calculateGraphDistanceBatch(c, d, fromIds, toIds, maxDepth, t) ==
    DistancePairs(preloadGraphSubset(c, d, SeqRange(fromIds) \cup SeqRange(toIds),
                                     Min(maxDepth, 2), t),
                  d, PairsOf(fromIds, toIds), maxDepth, t, {}, t)

RECURSIVE MinDistance(_, _, _, _)
\* getContextualDistances: the loop over contextEntities for one entityId
\* (it stops as soon as the minimum is 1)
MinDistance(batch, entityId, contextEntities, minDistance) ==
    IF contextEntities = <<>> \/ minDistance = 1 THEN minDistance
    ELSE LET distance == (CHOOSE e \in batch : e.from = String(Head(contextEntities))
                                              /\ e.to = String(entityId)).distance
         IN  MinDistance(batch, entityId, Tail(contextEntities),
                         IF distance = NullDistance THEN minDistance
                         ELSE IF minDistance = NullDistance THEN distance
                         ELSE Min(minDistance, distance))

\* the default maxDepth of calculateGraphDistanceBatch
DefaultMaxDepth == 3

\* ContextManager.getContextualDistances(entityIds, contextEntityIds)
getContextualDistances(c, d, entityIds, contextEntities, t) ==
    IF contextEntities = <<>>
    THEN [ret |-> [id \in SeqRange(entityIds) |-> NullDistance], cache |-> c, oldest |-> t]
    ELSE LET b == calculateGraphDistanceBatch(c, d, contextEntities, entityIds,
                                              DefaultMaxDepth, t)
         IN  [ret |-> [id \in SeqRange(entityIds) |->
                          MinDistance(b.ret, id, contextEntities, NullDistance)],
              cache |-> b.cache, oldest |-> b.oldest]


(***************************************************************************)
(* The relevance columns of the observations table and the statements     *)
(* that read and write them.  db.stats maps an observation id to its       *)
(* created_at, last_accessed, access_count and importance; an id it does   *)
(* not map has the columns' defaults.                                      *)
(***************************************************************************)
\* the NULL of created_at and last_accessed, below every time of the model
NullTime == -100

\* INSERT INTO observations(entity_id, content): created_at and last_accessed
\* NULL, access_count DEFAULT 0, importance DEFAULT 'normal'
DefaultStats ==
    [created_at |-> NullTime, last_accessed |-> NullTime, access_count |-> 0,
     importance |-> "normal"]

\* the contents stored for an entity
ContentsOf(d, id) == {o.content : o \in {o \in d.observations : o.entity_id = id}}

StatsOf(d, observationId) ==
    IF observationId \in DOMAIN d.stats THEN d.stats[observationId] ELSE DefaultStats

ObservationsOf(d, entityIds) == {o \in d.observations : o.entity_id \in entityIds}

\* UPDATE observations SET access_count = COALESCE(access_count, 0) + 1,
\* last_accessed = datetime('now') WHERE entity_id IN (...)
updateAccessStats(d, entityIds, t) ==
    LET hit == {o.id : o \in ObservationsOf(d, entityIds)}
    IN  Ok([d EXCEPT !.stats =
                [id \in DOMAIN d.stats \cup hit |->
                    IF id \in hit
                    THEN [StatsOf(d, id) EXCEPT !.access_count = @ + 1,
                                                !.last_accessed = t]
                    ELSE d.stats[id]]],
           Null)

RECURSIVE Sum(_, _)
\* SUM(o.access_count) over the observation ids S
Sum(d, S) ==
    IF S = {} THEN 0
    ELSE LET id == CHOOSE x \in S : TRUE
         IN  StatsOf(d, id).access_count + Sum(d, S \ {id})

\* MAX(o.last_accessed): NULL when every value is NULL
MaxLastAccessed(d, S) ==
    LET times == {StatsOf(d, id).last_accessed : id \in S} \ {NullTime}
    IN  IF times = {} THEN NullTime ELSE CHOOSE t \in times : \A u \in times : u <= t

\* MIN(o.created_at): NULL when every value is NULL
MinCreatedAt(d, S) ==
    LET times == {StatsOf(d, id).created_at : id \in S} \ {NullTime}
    IN  IF times = {} THEN NullTime ELSE CHOOSE t \in times : \A u \in times : t <= u

\* the observations of S that ORDER BY last_accessed DESC may put first:
\* those of the greatest last_accessed, where NULL is the least value in
\* SQLite and the greatest in PostgreSQL
FirstByLastAccessed(b, d, S) ==
    LET nulls == {id \in S : StatsOf(d, id).last_accessed = NullTime}
    IN  IF b = "postgres" /\ nulls # {} THEN nulls
        ELSE {id \in S : \A other \in S : StatsOf(d, other).last_accessed
                                              <= StatsOf(d, id).last_accessed}

\* COALESCE((SELECT importance ... ORDER BY last_accessed DESC LIMIT 1), 'normal'):
\* the values the subquery may give
LatestImportance(b, d, S) ==
    IF S = {} THEN {"normal"}
    ELSE {StatsOf(d, id).importance : id \in FirstByLastAccessed(b, d, S)}

\* fetchEntitiesWithDetails(entityIds): the results the statement may give,
\* each with one row for each entity of the list
fetchEntitiesWithDetails(b, d, entityIds) ==
    LET found == {e \in d.entities : e.id \in entityIds}
        obs(e) == {o.id : o \in ObservationsOf(d, {e.id})}
    IN  {{[entity_id |-> e.id, name |-> e.name, entityType |-> e.entityType,
           created_at |-> MinCreatedAt(d, obs(e)),
           last_accessed |-> MaxLastAccessed(d, obs(e)),
           access_count |-> Sum(d, obs(e)), importance |-> pick[e]] : e \in found}
            : pick \in {f \in [found -> UNION {LatestImportance(b, d, obs(e)) : e \in found}] :
                           \A e \in found : f[e] \in LatestImportance(b, d, obs(e))}}

\* UPDATE observations SET importance = ? WHERE entity_id = ?: ret is
\* changes > 0
setImportance(d, entityId, importance) ==
    LET hit == {o.id : o \in ObservationsOf(d, {entityId})}
    IN  Ok([d EXCEPT !.stats =
                [id \in DOMAIN d.stats \cup hit |->
                    IF id \in hit THEN [StatsOf(d, id) EXCEPT !.importance = importance]
                    ELSE d.stats[id]]],
           hit # {})

\* SELECT DISTINCT entity_id FROM observations WHERE last_accessed IS NOT NULL
\* ORDER BY last_accessed DESC LIMIT ?: the rows before DISTINCT and LIMIT
AccessedRows(d) ==
    {[entity_id |-> o.entity_id, last_accessed |-> StatsOf(d, o.id).last_accessed]
        : o \in {o \in d.observations : StatsOf(d, o.id).last_accessed # NullTime}}

\* LOWER(text), toLowerCase() of the names, types and queries of the model
Lower(text) ==
    CASE text = "T" -> "t"
      [] text = "A" -> "a"
      [] text = "Unknown" -> "unknown"
      [] OTHER -> text

\* the queries of the model: none is part of a longer name, type or content,
\* so that a text contains the query exactly if it is the query
Queries == {"A", "x", "z", "%"}

\* obs_fts MATCH '"query"' (the triggers keep obs_fts equal to observations),
\* o.tsv @@ websearch_to_tsquery('simple', unaccent(query))
FtsMatch(content, query) == content = query

\* LOWER(text) LIKE '%' || escapeLike(query.toLowerCase()) || '%' ESCAPE '\':
\* the text contains the query, whatever their case
Like(text, query) == Lower(text) = Lower(query)

\* text ILIKE '%' || query || '%': a % of the query matches any text
ILike(text, query) == query = "%" \/ Lower(text) = Lower(query)

\* keywordSearch(query): the ids of the full-text rows and of the LIKE rows
\* (SQLite) or ILIKE rows (PostgreSQL)
keywordSearch(b, d, query) ==
    {o.entity_id : o \in {o \in d.observations : FtsMatch(o.content, query)}}
    \cup {e.id : e \in {e \in d.entities :
                           IF b = "postgres"
                           THEN ILike(e.name, query) \/ ILike(e.entityType, query)
                           ELSE Like(e.name, query) \/ Like(e.entityType, query)}}

\* the distance of two embeddings, in thousandths: the embeddings of one text
\* coincide, those of "x" and "y" are near, all others far
Distance(u, v) ==
    IF u = v THEN 0
    ELSE IF {u, v} = {Embed("x"), Embed("y")} THEN 300
    ELSE 900

\* SELECT entity_id, distance FROM obs_vec WHERE embedding IS NOT NULL: the
\* rows before ORDER BY distance LIMIT ?
VecDistances(d, vector) ==
    {[observation_id |-> v.observation_id, entity_id |-> v.entity_id,
      distance |-> Distance(v.embedding, vector)] : v \in d.obs_vec}

\* the sequences that list every member of S once
Perms(S) ==
    {s \in [1..Cardinality(S) -> S] : \A x \in S : \E n \in 1..Cardinality(S) : s[n] = x}

\* array.slice(0, n)
Slice(s, n) == SubSeq(s, 1, IF n < Len(s) THEN n ELSE Len(s))

\* the results ORDER BY distance LIMIT limit may give (equal distances come
\* in any order)
OrderByDistance(rows, limit) ==
    {Slice(s, limit) : s \in {s \in Perms(rows) :
        \A m, n \in 1..Len(s) : m < n => s[m].distance <= s[n].distance}}

\* semanticSearch(vector, topK): the row sequences the statement may return
semanticSearch(d, vector, topK) == OrderByDistance(VecDistances(d, vector), topK)

\* (mutant) hybridSearch without the second loop: only the vector rows
HybridRowsVectorOnly(d, query, vecRows, adjustedThreshold) ==
    LET ftsSet == {o.entity_id : o \in {o \in d.observations : FtsMatch(o.content, query)}}
        near == {r \in SeqRange(vecRows) : 2 * r.distance <= 3 * adjustedThreshold}
    IN  {[observation_id |-> r.observation_id, entity_id |-> r.entity_id,
          distance |-> r.distance,
          score |-> IF r.entity_id \in ftsSet THEN (3 * r.distance) \div 10
                    ELSE r.distance] : r \in near}

\* hybridSearch: the rows pushed into results, from the vector rows within
\* adjustedThreshold * 1.5 and from the full-text rows not among them
HybridRows(d, query, vecRows, adjustedThreshold) ==
    LET ftsSet == {o.entity_id : o \in {o \in d.observations : FtsMatch(o.content, query)}}
        near == {r \in SeqRange(vecRows) : 2 * r.distance <= 3 * adjustedThreshold}
    IN  {[observation_id |-> r.observation_id, entity_id |-> r.entity_id,
          distance |-> r.distance,
          score |-> IF r.entity_id \in ftsSet THEN (3 * r.distance) \div 10
                    ELSE r.distance] : r \in near}
        \cup {[observation_id |-> Null, entity_id |-> id,
               distance |-> adjustedThreshold \div 2,
               score |-> adjustedThreshold \div 2]
                 : id \in ftsSet \ {r.entity_id : r \in near}}

\* hybridSearch(query, vector, topK, adjustedThreshold): results sorted by
\* score, ascending, and cut to topK
hybridSearch(d, query, vector, topK, adjustedThreshold) ==
    UNION {{Slice(s, topK) :
              s \in {s \in Perms(HybridRows(d, query, vecRows, adjustedThreshold)) :
                        \A m, n \in 1..Len(s) : m < n => s[m].score <= s[n].score}}
             : vecRows \in semanticSearch(d, vector, topK * 2)}

(***************************************************************************)
(* scoring-utils.js.  A score is an integer number of millionths.          *)
(***************************************************************************)
\* recencyThreshold: 7 days, in ticks of 5 minutes
RecencyThreshold == 2016

\* Math.exp(-0.693 * ageInDays / 30) for an age in ticks of 5 minutes, to the
\* first order (the ages of the model are a few ticks)
Decay(age) == 1000000 - 80 * age

\* getTemporalScore(createdAt, lastAccessed) at time t
getTemporalScore(createdAt, lastAccessed, t) ==
    IF createdAt = NullTime THEN 1000000
    ELSE LET accessed == IF lastAccessed # NullTime THEN lastAccessed ELSE createdAt
             relevantDate == IF accessed > createdAt THEN accessed ELSE createdAt
             decayFactor == Decay(t - relevantDate)
             recent == lastAccessed # NullTime /\ t - lastAccessed < RecencyThreshold
             boosted == IF recent THEN (decayFactor * 12) \div 10 ELSE decayFactor
         IN  Min(boosted, 1200000)

\* Math.log10(n), in millionths
Log10(n) ==
    CASE n = 1 -> 0
      [] n = 2 -> 301030
      [] n = 3 -> 477121
      [] n = 4 -> 602060
      [] n = 5 -> 698970
      [] n = 6 -> 778151
      [] n = 7 -> 845098
      [] n = 8 -> 903090
      [] n = 9 -> 954243
      [] OTHER -> 1000000

\* getPopularityScore(accessCount): baseScore + log10(1 + accessCount) * scaleFactor
getPopularityScore(accessCount) ==
    IF accessCount <= 0 THEN 1000000 ELSE 1000000 + Log10(1 + accessCount) \div 10

\* (mutant) getContextualScore without the cut at config.maxDistance
getContextualScoreUncut(distance) ==
    IF distance = NullDistance THEN 1000000
    ELSE IF distance = 0 THEN 1500000
    ELSE LET score == 1500000 - distance * 200000
         IN  IF score > 500000 THEN score ELSE 500000

\* getContextualScore(distance) with the default config: maxDistance 3,
\* nearWeight 1.5, decayRate 0.2
getContextualScore(distance) ==
    IF distance = NullDistance \/ distance > 3 THEN 1000000
    ELSE IF distance = 0 THEN 1500000
    ELSE LET score == 1500000 - distance * 200000
         IN  IF score > 500000 THEN score ELSE 500000

\* IMPORTANCE_WEIGHTS
getImportanceScore(importance) ==
    CASE importance = "critical" -> 2000000
      [] importance = "important" -> 1500000
      [] importance = "temporary" -> 700000
      [] importance = "deprecated" -> 300000
      [] OTHER -> 1000000

\* calculateRelevanceScore(entity, contextDistance).finalScore with the
\* default weights 0.4, 0.2, 0.2, 0.2
calculateRelevanceScore(entity, contextDistance, t) ==
    (4 * getTemporalScore(entity.created_at, entity.last_accessed, t)
     + 2 * getPopularityScore(entity.access_count)
     + 2 * getContextualScore(contextDistance)
     + 2 * getImportanceScore(entity.importance)) \div 10

\* scoreSearchResults: every result with its score and context distance
ScoredRows(results, contextDistances, t) ==
    {[entity_id |-> r.entity_id, name |-> r.name, entityType |-> r.entityType,
      created_at |-> r.created_at, last_accessed |-> r.last_accessed,
      access_count |-> r.access_count, importance |-> r.importance,
      score |-> calculateRelevanceScore(r, contextDistances[r.entity_id], t),
      contextDistance |-> contextDistances[r.entity_id]] : r \in results}

\* scoredResults.sort((a, b) => b.score - a.score): the orders the rows may
\* come out in (rows of equal score keep the order the database gave them)
SortByScore(rows) ==
    {s \in Perms(rows) : \A m, n \in 1..Len(s) : m < n => s[m].score >= s[n].score}

\* (mutant) an openNodes that counts the read as an access of what it returns
openNodesCounting(d, names) ==
    LET entities == {e \in d.entities : e.name \in names}
        ids == {e.id : e \in entities}
        nameOf(id) == (CHOOSE e \in d.entities : e.id = id).name
    IN  Ok(updateAccessStats(d, ids, 0).db,
           [entities |-> {[name |-> e.name, entityType |-> e.entityType,
                           observations |-> ContentsOf(d, e.id)] : e \in entities},
            relations |-> {[from |-> nameOf(r.from_id), to |-> nameOf(r.to_id),
                            relationType |-> r.relationType]
                              : r \in {r \in BagToSet(d.relations) :
                                         r.from_id \in ids /\ r.to_id \in ids}}])

\* openNodes(names): the entities named, each with its observations, and the
\* relations among them
openNodes(d, names) ==
    LET entities == {e \in d.entities : e.name \in names}
        ids == {e.id : e \in entities}
        nameOf(id) == (CHOOSE e \in d.entities : e.id = id).name
    IN  Ok(d, [entities |-> {[name |-> e.name, entityType |-> e.entityType,
                              observations |-> ContentsOf(d, e.id)] : e \in entities},
               relations |-> {[from |-> nameOf(r.from_id), to |-> nameOf(r.to_id),
                               relationType |-> r.relationType]
                                 : r \in {r \in BagToSet(d.relations) :
                                            r.from_id \in ids /\ r.to_id \in ids}}])

\* readGraph(): every entity with its observations, and every relation
readGraph(d) == openNodes(d, {e.name : e \in d.entities})

(***************************************************************************)
(* State.                                                                  *)
(*   backend        which repository the manager was constructed with      *)
(*   vectorEnabled  PostgresGraphRepository.vectorEnabledPromise           *)
(*   db             the tables and their id sequences                      *)
(*   tx             SQLite: the open transaction of the one shared         *)
(*                  connection, as the database BEGIN saw (<<>> if none)   *)
(*   proc           every caller's position in its manager call            *)
(*   graphCache     the ContextManager's GraphCache                        *)
(*   now            Date.now(), in ticks                                   *)
(*   cret           what the last ContextManager call returned             *)
(*   embedder       KnowledgeGraphManager.#embedder ("null" until loaded)  *)
(*   pipelineLoads  history: the pipeline(...) loads started and not       *)
(*                  failed                                                 *)
(*   contextCache   context-manager.js: the recent-entities cache          *)
(*   search         the reader's position in its searchNodes, openNodes    *)
(*                  or readGraph call                                      *)
(*   imp            the caller's position in its setImportance call        *)
(*   peerGraphCache the GraphCache of a second ContextManager, constructed *)
(*                  over the same repository                               *)
(*   dbm            the DbManager: its handle, the database it opens, and  *)
(*                  every caller's position in its db() call               *)
(*   mig            the migration manager: the schema changes in effect,   *)
(*                  the rows of the migrations table, the open             *)
(*                  transaction, and the position of the migrate or        *)
(*                  rollback call                                          *)
(***************************************************************************)
VARIABLES backend, vectorEnabled, db, tx, proc, graphCache, now, cret, embedder,
          pipelineLoads, contextCache, search, imp, peerGraphCache, dbm, mig

vars == <<backend, vectorEnabled, db, tx, proc, graphCache, now, cret, embedder,
         pipelineLoads, contextCache, search, imp, peerGraphCache, dbm, mig>>

\* the state of the embedding model
embedVars == <<embedder, pipelineLoads>>

\* the state of the ContextManager
contextVars == <<graphCache, now, cret>>

\* the state of the reads and of the recent-entities cache
searchVars == <<contextCache, search>>

\* everything but the store and the manager's callers
nonStoreVars == <<contextVars, embedVars, searchVars, imp, peerGraphCache, dbm, mig>>

\* the state of the store and of the manager's callers
storeVars == <<backend, vectorEnabled, db, tx, proc>>

NoCall == [op |-> "none"]

\* contextCache.maxRecentEntities
MaxRecentEntities == 10

\* const contextCache = { recentEntities: [], lastUpdate: null, ttl: 5 minutes,
\* maxRecentEntities: 10 }, the ttl in ticks
EmptyContextCache ==
    [recentEntities |-> <<>>, lastUpdate |-> NullTime, ttl |-> CacheTtl,
     maxRecentEntities |-> MaxRecentEntities]

EmptyResult == [entities |-> <<>>, relations |-> {}]

SearchIdle ==
    [pc |-> "idle", op |-> "none", mode |-> "", query |-> "", topK |-> 0,
     vector |-> <<>>, ids |-> <<>>, entityData |-> {}, recent |-> <<>>,
     scored |-> <<>>, result |-> EmptyResult, err |-> "",
     includeScoreDetails |-> FALSE,
     \* history: the backend error that the call caught and did not raise
     swallowed |-> "",
     \* history, read by no step: the store when the call was made, and the
     \* time of its updateAccessStats
     before |-> EmptyDb, at |-> NullTime]

\* no setImportance call is made; lastSet is history, read by no step: the
\* level of the last setImportance that succeeded for each name
NoLevel == "none"
ImpIdle ==
    [pc |-> "idle", entityName |-> "", importance |-> "", entityId |-> Null,
     ret |-> [success |-> FALSE, error |-> <<>>, message |-> <<>>],
     before |-> EmptyDb, lastSet |-> [name \in Names |-> NoLevel]]

\* the callers of db() (graphRepository() and the tools behind it)
MaxDbCallers == 2
DbCallers == 1..MaxDbCallers

\* a caller that is not in db(); got and gotReady are what its last call gave
DbIdle == [pc |-> "idle", got |-> "none", gotReady |-> FALSE]

\* a new DbManager: #db = null (#pool = null), over a database file that has
\* no tables yet; opens counts the open(...) calls (the new Pool(...))
DbmInit ==
    [handle |-> FALSE, opens |-> 0, ready |-> FALSE,
     caller |-> [c \in DbCallers |-> DbIdle]]

\* migrate's targetVersion = null
NullVersion == -1

\* the migrations table is empty and no migrate or rollback call is made.
\* schema holds the versions whose up is in effect, records the versions in
\* the migrations table, tx what BEGIN saw (<<>> if no transaction is
\* open).  applied, failed and before are history, read by no step: the
\* versions the call has applied or undone, in order, whether a step of the
\* call failed, and the database when the call was made
MigIdle ==
    [schema |-> {}, records |-> {}, tx |-> <<>>,
     pc |-> "idle", op |-> "none", target |-> NullVersion, currentVersion |-> 0,
     todo |-> <<>>, ret |-> "none",
     applied |-> <<>>, failed |-> FALSE, before |-> [schema |-> {}, records |-> {}]]

Idle ==
    [pc |-> "idle", op |-> "none", args |-> <<>>, i |-> 0, created |-> <<>>,
     nested |-> FALSE, aoList |-> <<>>, aoI |-> 0, entityId |-> Null, j |-> 0,
     inserted |-> <<>>, embeddings |-> <<>>, k |-> 0, txRows |-> {},
     results |-> <<>>, gocName |-> "", gocAfter |-> "", fromId |-> Null,
     toId |-> Null, err |-> "",
     \* history, read by no step: what the statements of this call did
     added |-> <<>>, embedded |-> <<>>, before |-> {}, allAdded |-> <<>>]

Init ==
    /\ backend \in Backends
    /\ vectorEnabled \in (IF backend = "sqlite" THEN {TRUE} ELSE BOOLEAN)
    /\ db = EmptyDb
    /\ tx = <<>>
    /\ proc = [p \in Procs |-> Idle]
    /\ graphCache = clear(0)
    /\ now = 0
    /\ cret = NoCall
    /\ embedder = "null"
    /\ pipelineLoads = 0
    /\ contextCache = EmptyContextCache
    /\ search = SearchIdle
    /\ imp = ImpIdle
    /\ peerGraphCache = clear(0)
    /\ dbm = DbmInit
    /\ mig = MigIdle

\* the embedding provider and the storage may fail a request at any time
FaultChoices == BOOLEAN

Raise(r, e) == [r EXCEPT !.pc = "raised", !.err = e]

(***************************************************************************)
(* Control flow between awaits (no step of its own).                       *)
(***************************************************************************)
\* createEntities: top of the for loop at index r.i
CeLoop(r) ==
    IF r.i > Len(r.args) THEN [r EXCEPT !.pc = "done"] ELSE [r EXCEPT !.pc = "ce_get"]

\* addObservations: top of the for loop at index r.aoI
AoLoop(r) ==
    IF r.aoI > Len(r.aoList)
    THEN IF r.nested
         THEN CeLoop([r EXCEPT !.nested = FALSE, !.aoList = <<>>, !.aoI = 0,
                               !.results = <<>>, !.allAdded = <<>>, !.i = @ + 1])
         ELSE [r EXCEPT !.pc = "done"]
    ELSE [r EXCEPT !.pc = "goc_get", !.gocName = r.aoList[r.aoI].entityName,
                   !.gocAfter = "ao"]

\* (mutant) reports every content of the list item as added
AoPushAll(r) ==
    AoLoop([r EXCEPT
        !.results = Append(@, [entityName |-> r.aoList[r.aoI].entityName,
                               addedObservations |-> r.aoList[r.aoI].contents]),
        !.allAdded = Append(@, [entityName |-> r.aoList[r.aoI].entityName,
                                addedObservations |-> r.added, before |-> r.before]),
        !.aoI = @ + 1, !.entityId = Null, !.j = 0, !.inserted = <<>>,
        !.embeddings = <<>>, !.k = 0, !.added = <<>>, !.embedded = <<>>,
        !.before = {}])

\* addObservations: results.push(...) and the next list item
AoPush(r) ==
    AoLoop([r EXCEPT
        !.results = Append(@, [entityName |-> r.aoList[r.aoI].entityName,
                               addedObservations |->
                                   [n \in 1..Len(r.inserted) |-> r.inserted[n].content]]),
        !.allAdded = Append(@, [entityName |-> r.aoList[r.aoI].entityName,
                                addedObservations |-> r.added, before |-> r.before]),
        !.aoI = @ + 1, !.entityId = Null, !.j = 0, !.inserted = <<>>,
        !.embeddings = <<>>, !.k = 0, !.added = <<>>, !.embedded = <<>>,
        !.before = {}])

\* addObservations: after the loop over contents
AoAfterInserts(r) ==
    IF Len(r.inserted) > 0 THEN [r EXCEPT !.pc = "ao_embed"] ELSE AoPush(r)

\* createEntities: after the entity exists
CeAfterCreate(r) ==
    IF Len(r.args[r.i].observations) > 0
    THEN AoLoop([r EXCEPT !.nested = TRUE, !.aoI = 1,
                          !.aoList = <<[entityName |-> r.args[r.i].name,
                                        contents |-> r.args[r.i].observations]>>])
    ELSE CeLoop([r EXCEPT !.i = @ + 1])

\* createRelations: top of the for loop at index r.i
CrLoop(r) ==
    IF r.i > Len(r.args) THEN [r EXCEPT !.pc = "done"]
    ELSE [r EXCEPT !.pc = "goc_get", !.gocName = r.args[r.i].from, !.gocAfter = "cr_from"]

\* getOrCreateEntityId returns id to its caller (d: the database at that time)
GocReturn(r, id, d) ==
    LET q == [r EXCEPT !.gocName = "", !.gocAfter = ""]
    IN  CASE r.gocAfter = "ao" ->
               IF Len(r.aoList[r.aoI].contents) = 0
               THEN AoAfterInserts([q EXCEPT !.entityId = id, !.before = ContentsOf(d, id)])
               ELSE [q EXCEPT !.entityId = id, !.pc = "ao_insert", !.j = 1,
                              !.before = ContentsOf(d, id)]
          [] r.gocAfter = "cr_from" ->
               [r EXCEPT !.fromId = id, !.pc = "goc_get",
                         !.gocName = r.args[r.i].to, !.gocAfter = "cr_to"]
          [] OTHER -> [q EXCEPT !.toId = id, !.pc = "cr_create"]


Start(p, op, args) ==
    [Idle EXCEPT !.op = op, !.args = args, !.i = 1]

(***************************************************************************)
(* KnowledgeGraphManager.createEntities                                    *)
(***************************************************************************)
CallCreateEntities(p, inputs) ==
    /\ proc[p].pc = "idle"
    /\ \E entities \in inputs :
          proc' = [proc EXCEPT ![p] = CeLoop(Start(p, "createEntities", entities))]
    /\ UNCHANGED <<nonStoreVars, backend, vectorEnabled, db, tx>>

\* (mutant) an entity that exists ends the loop body: its observations are skipped
CeGetEntityIdSkipExisting(p) ==
    LET r == proc[p] IN
    /\ r.pc = "ce_get"
    /\ proc' = [proc EXCEPT ![p] =
                  IF getEntityId(db, r.args[r.i].name) = Null
                  THEN [r EXCEPT !.pc = "ce_create"]
                  ELSE CeLoop([r EXCEPT !.i = @ + 1])]
    /\ UNCHANGED <<nonStoreVars, backend, vectorEnabled, db, tx>>

\* const existingId = await this.#repository.getEntityId(entity.name)
CeGetEntityId(p) ==
    LET r == proc[p] IN
    /\ r.pc = "ce_get"
    /\ proc' = [proc EXCEPT ![p] =
                  IF getEntityId(db, r.args[r.i].name) = Null
                  THEN [r EXCEPT !.pc = "ce_create"]
                  ELSE CeAfterCreate(r)]
    /\ UNCHANGED <<nonStoreVars, backend, vectorEnabled, db, tx>>

\* await this.#repository.createEntity(entity.name, entity.entityType)
CeCreateEntity(p) ==
    LET r == proc[p]
        res == createEntity(db, r.args[r.i].name, r.args[r.i].entityType)
    IN
    /\ r.pc = "ce_create"
    /\ res.db.nextEntityId <= MaxEntityId + 1
    /\ db' = res.db
    /\ proc' = [proc EXCEPT ![p] =
                  IF res.err # "" THEN Raise(r, res.err)
                  ELSE CeAfterCreate([r EXCEPT !.created = Append(@, r.args[r.i])])]
    /\ UNCHANGED <<nonStoreVars, backend, vectorEnabled, tx>>

(***************************************************************************)
(* getOrCreateEntityId(name, 'Unknown'), as both repositories write it:    *)
(* a SELECT, and when it finds nothing an INSERT.                          *)
(***************************************************************************)
GocGetEntityId(p) ==
    LET r == proc[p]
        existing == getEntityId(db, r.gocName)
    IN
    /\ r.pc = "goc_get"
    /\ proc' = [proc EXCEPT ![p] =
                  IF existing # Null THEN GocReturn(r, existing, db)
                  ELSE [r EXCEPT !.pc = "goc_create"]]
    /\ UNCHANGED <<nonStoreVars, backend, vectorEnabled, db, tx>>

GocCreate(p) ==
    LET r == proc[p]
        res == IF backend = "sqlite" THEN createEntity(db, r.gocName, "Unknown")
               ELSE upsertEntity(db, r.gocName, "Unknown")
    IN
    /\ r.pc = "goc_create"
    /\ res.db.nextEntityId <= MaxEntityId + 1
    /\ db' = res.db
    /\ proc' = [proc EXCEPT ![p] =
                  IF res.err # "" THEN Raise(r, res.err) ELSE GocReturn(r, res.ret, res.db)]
    /\ UNCHANGED <<nonStoreVars, backend, vectorEnabled, tx>>

(***************************************************************************)
(* KnowledgeGraphManager.addObservations                                   *)
(***************************************************************************)
CallAddObservations(p, inputs) ==
    /\ proc[p].pc = "idle"
    /\ \E list \in inputs :
          proc' = [proc EXCEPT ![p] =
                      AoLoop([Start(p, "addObservations", list) EXCEPT
                                 !.aoList = list, !.aoI = 1])]
    /\ UNCHANGED <<nonStoreVars, backend, vectorEnabled, db, tx>>

\* await this.#repository.insertObservation(entityId, content), and the push
AoInsertObservation(p) ==
    LET r == proc[p]
        content == r.aoList[r.aoI].contents[r.j]
        res == insertObservation(db, r.entityId, content)
        q == [r EXCEPT
                !.inserted = IF res.ret.inserted /\ res.ret.observationId # Null
                             THEN Append(@, [observationId |-> res.ret.observationId,
                                             content |-> content])
                             ELSE @,
                !.added = IF res.db.observations # db.observations
                          THEN Append(@, content) ELSE @,
                !.j = @ + 1]
    IN
    /\ r.pc = "ao_insert"
    /\ res.db.nextObsId <= MaxObsId + 1
    /\ db' = res.db
    /\ proc' = [proc EXCEPT ![p] =
                  IF res.err # "" THEN Raise(r, res.err)
                  ELSE IF q.j > Len(r.aoList[r.aoI].contents) THEN AoAfterInserts(q)
                  ELSE q]
    /\ UNCHANGED <<nonStoreVars, backend, vectorEnabled, tx>>

\* (mutant) embeds every content of the list item, stored before or not
EmbedInputAll(r) == r.aoList[r.aoI].contents

\* the texts addObservations hands to embedTexts
EmbedInput(r) == [n \in 1..Len(r.inserted) |-> r.inserted[n].content]

\* const embeddings = await this.embedTexts(inserted.map(row => row.content))
AoEmbedTexts(p) ==
    LET r == proc[p]
        texts == EmbedInput(r)
    IN
    /\ r.pc = "ao_embed"
    /\ \E fault \in FaultChoices :
          /\ proc' = [proc EXCEPT ![p] =
                IF fault THEN Raise([r EXCEPT !.embedded = texts], "embedding failed")
                ELSE [r EXCEPT !.embedded = texts, !.pc = "vec_begin",
                               !.embeddings = [n \in 1..Len(texts) |-> Embed(texts[n])]]]
    /\ UNCHANGED <<nonStoreVars, backend, vectorEnabled, db, tx>>


(***************************************************************************)
(* insertObservationVectors(vectorRows): BEGIN, one INSERT per row, COMMIT; *)
(* on an error ROLLBACK and rethrow.  SQLite runs it on the one shared     *)
(* connection; PostgreSQL on a client of its own, whose rows nobody else   *)
(* sees before COMMIT.                                                     *)
(***************************************************************************)
VectorRow(r) ==
    [observation_id |-> r.inserted[r.k].observationId, entity_id |-> r.entityId,
     embedding |-> r.embeddings[r.k]]

\* what a row's INSERT does to the tables every connection sees
vecWriteDb(b, d, row) ==
    IF b = "sqlite" THEN [d EXCEPT !.obs_vec = putVector(@, row)] ELSE d

\* what a row's INSERT does to the rows pending in the client's transaction
vecWriteTx(b, rows, row) ==
    IF b = "sqlite" THEN rows ELSE putVector(rows, row)

\* COMMIT
commitDb(b, d, rows) ==
    IF b = "sqlite" THEN d ELSE [d EXCEPT !.obs_vec = putVectors(@, rows)]

\* (mutant) the rows are written outside any transaction: nothing to undo
rollbackDbNothing(b, d, t) == d

\* (mutant) the transaction began before the call's observation inserts:
\* ROLLBACK takes the rows without a vector with it
rollbackDbWithObservations(b, d, t) ==
    LET u == IF b = "sqlite" THEN t[1] ELSE d
    IN  [u EXCEPT !.observations =
            {o \in @ : \E v \in u.obs_vec : v.observation_id = o.id}]

\* ROLLBACK: SQLite goes back to the database BEGIN saw
rollbackDb(b, d, t) ==
    IF b = "sqlite" THEN t[1] ELSE d

VecBegin(p) ==
    LET r == proc[p] IN
    /\ r.pc = "vec_begin"
    /\ IF backend = "postgres"
       THEN /\ proc' = [proc EXCEPT ![p] =
                          IF ~vectorEnabled
                          THEN Raise(r, "pgvector is required but not available")
                          ELSE [r EXCEPT !.pc = "vec_row", !.k = 1]]
            /\ tx' = tx
       ELSE /\ proc' = [proc EXCEPT ![p] =
                          IF tx # <<>>
                          THEN Raise(r, "cannot start a transaction within a transaction")
                          ELSE [r EXCEPT !.pc = "vec_row", !.k = 1]]
            /\ tx' = IF tx # <<>> THEN tx ELSE <<db>>
    /\ UNCHANGED <<nonStoreVars, backend, vectorEnabled, db>>

VecRow(p) ==
    LET r == proc[p]
        row == VectorRow(r)
        fk == backend = "postgres" /\ ForeignKeysOn /\ r.entityId \notin EntityIds(db)
        next == IF r.k = Len(r.inserted) THEN "vec_commit" ELSE "vec_row"
    IN
    /\ r.pc = "vec_row"
    /\ \E fault \in FaultChoices :
          /\ IF fault \/ fk
             THEN /\ db' = db
                  /\ proc' = [proc EXCEPT ![p] =
                        [r EXCEPT !.pc = "vec_rollback",
                                  !.err = IF fault THEN "vector write failed"
                                          ELSE "FOREIGN KEY obs_vec.entity_id"]]
             ELSE /\ db' = vecWriteDb(backend, db, row)
                  /\ proc' = [proc EXCEPT ![p] =
                        [r EXCEPT !.pc = next, !.k = @ + 1,
                                  !.txRows = vecWriteTx(backend, @, row)]]
    /\ UNCHANGED <<nonStoreVars, backend, vectorEnabled, tx>>

VecCommit(p) ==
    LET r == proc[p] IN
    /\ r.pc = "vec_commit"
    /\ db' = commitDb(backend, db, r.txRows)
    /\ tx' = <<>>
    /\ proc' = [proc EXCEPT ![p] = AoPush([r EXCEPT !.txRows = {}])]
    /\ UNCHANGED <<nonStoreVars, backend, vectorEnabled>>

VecRollback(p) ==
    LET r == proc[p] IN
    /\ r.pc = "vec_rollback"
    /\ db' = rollbackDb(backend, db, tx)
    /\ tx' = <<>>
    /\ proc' = [proc EXCEPT ![p] = Raise([r EXCEPT !.txRows = {}], r.err)]
    /\ UNCHANGED <<nonStoreVars, backend, vectorEnabled>>

(***************************************************************************)
(* KnowledgeGraphManager.createRelations                                   *)
(***************************************************************************)
CallCreateRelations(p, inputs) ==
    /\ proc[p].pc = "idle"
    /\ \E relations \in inputs :
          proc' = [proc EXCEPT ![p] = CrLoop(Start(p, "createRelations", relations))]
    /\ UNCHANGED <<nonStoreVars, backend, vectorEnabled, db, tx>>

\* const inserted = await this.#repository.createRelation(fromId, toId, type)
CrCreateRelation(p) ==
    LET r == proc[p]
        res == createRelation(db, r.fromId, r.toId, r.args[r.i].relationType)
    IN
    /\ r.pc = "cr_create"
    /\ db' = res.db
    /\ proc' = [proc EXCEPT ![p] =
          IF res.err # "" THEN Raise(r, res.err)
          ELSE CrLoop([r EXCEPT
                  !.created = IF res.ret THEN Append(@, r.args[r.i]) ELSE @,
                  !.added = IF res.db.relations # db.relations
                            THEN Append(@, r.args[r.i]) ELSE @,
                  !.i = @ + 1, !.fromId = Null, !.toId = Null])]
    /\ UNCHANGED <<nonStoreVars, backend, vectorEnabled, tx>>

(***************************************************************************)
(* The delete operations.                                                  *)
(***************************************************************************)

\* PostgreSQL: a row inserted into obs_vec in an open transaction holds a
\* key-share lock on the entity row it references; the DELETE waits for it.
DeleteWaits(names) ==
    /\ backend = "postgres"
    /\ \E q \in Procs : \E v \in proc[q].txRows : \E e \in db.entities :
          e.id = v.entity_id /\ e.name \in names

\* await this.#repository.deleteEntities(names): one DELETE statement
DeleteEntities(p, inputs) ==
    /\ proc[p].pc = "idle"
    /\ \E names \in inputs :
          /\ ~DeleteWaits(SeqRange(names))
          /\ db' = deleteEntities(backend, db, SeqRange(names))
          /\ proc' = [proc EXCEPT ![p] =
                        [Start(p, "deleteEntities", names) EXCEPT !.pc = "done"]]
    /\ UNCHANGED <<nonStoreVars, backend, vectorEnabled, tx>>

DoLoop(r) ==
    IF r.i > Len(r.args) THEN [r EXCEPT !.pc = "done"] ELSE [r EXCEPT !.pc = "do_get"]

CallDeleteObservations(p, inputs) ==
    /\ proc[p].pc = "idle"
    /\ \E list \in inputs :
          proc' = [proc EXCEPT ![p] = DoLoop(Start(p, "deleteObservations", list))]
    /\ UNCHANGED <<nonStoreVars, backend, vectorEnabled, db, tx>>

\* const entityId = await this.#repository.getEntityId(entityName)
DoGetEntityId(p) ==
    LET r == proc[p]
        id == getEntityId(db, r.args[r.i].entityName)
    IN
    /\ r.pc = "do_get"
    /\ proc' = [proc EXCEPT ![p] =
                  IF id = Null THEN DoLoop([r EXCEPT !.i = @ + 1])
                  ELSE [r EXCEPT !.entityId = id, !.pc = "do_delete"]]
    /\ UNCHANGED <<nonStoreVars, backend, vectorEnabled, db, tx>>

\* await this.#repository.deleteObservations(entityId, observations)
DoDelete(p) ==
    LET r == proc[p] IN
    /\ r.pc = "do_delete"
    /\ db' = deleteObservations(db, r.entityId, r.args[r.i].observations)
    /\ proc' = [proc EXCEPT ![p] = DoLoop([r EXCEPT !.i = @ + 1, !.entityId = Null])]
    /\ UNCHANGED <<nonStoreVars, backend, vectorEnabled, tx>>

DrLoop(r) ==
    IF r.i > Len(r.args) THEN [r EXCEPT !.pc = "done"] ELSE [r EXCEPT !.pc = "dr_from"]

CallDeleteRelations(p, inputs) ==
    /\ proc[p].pc = "idle"
    /\ \E relations \in inputs :
          proc' = [proc EXCEPT ![p] = DrLoop(Start(p, "deleteRelations", relations))]
    /\ UNCHANGED <<nonStoreVars, backend, vectorEnabled, db, tx>>

\* const fromId = await this.getEntityId(relation.from)
DrGetFrom(p) ==
    LET r == proc[p] IN
    /\ r.pc = "dr_from"
    /\ proc' = [proc EXCEPT ![p] =
                  [r EXCEPT !.fromId = getEntityId(db, r.args[r.i].from), !.pc = "dr_to"]]
    /\ UNCHANGED <<nonStoreVars, backend, vectorEnabled, db, tx>>

\* const toId = await this.getEntityId(relation.to); if (!fromId || !toId) continue
DrGetTo(p) ==
    LET r == proc[p]
        toId == getEntityId(db, r.args[r.i].to)
    IN
    /\ r.pc = "dr_to"
    /\ proc' = [proc EXCEPT ![p] =
                  IF r.fromId = Null \/ toId = Null
                  THEN DrLoop([r EXCEPT !.i = @ + 1, !.fromId = Null])
                  ELSE [r EXCEPT !.toId = toId, !.pc = "dr_delete"]]
    /\ UNCHANGED <<nonStoreVars, backend, vectorEnabled, db, tx>>

DrDelete(p) ==
    LET r == proc[p] IN
    /\ r.pc = "dr_delete"
    /\ db' = deleteRelation(db, r.fromId, r.toId, r.args[r.i].relationType)
    /\ proc' = [proc EXCEPT ![p] =
                  DrLoop([r EXCEPT !.i = @ + 1, !.fromId = Null, !.toId = Null])]
    /\ UNCHANGED <<nonStoreVars, backend, vectorEnabled, tx>>

\* the call's promise settles: the caller has its result or its error
Return(p) ==
    /\ proc[p].pc \in {"done", "raised"}
    /\ proc' = [proc EXCEPT ![p] = Idle]
    /\ UNCHANGED <<nonStoreVars, backend, vectorEnabled, db, tx>>

(***************************************************************************)
(* The steps of a call once it is made.                                    *)
(***************************************************************************)
IngestStep(p) ==
    \/ CeGetEntityId(p) \/ CeCreateEntity(p)
    \/ GocGetEntityId(p) \/ GocCreate(p)
    \/ AoInsertObservation(p) \/ AoEmbedTexts(p)
    \/ VecBegin(p) \/ VecRow(p) \/ VecCommit(p) \/ VecRollback(p)
    \/ Return(p)

(***************************************************************************)
(* Spec: two callers whose calls interleave at every await.                *)
(***************************************************************************)
OneOf(S) == {<<x>> : x \in S}

Entity(n, t, obs) == [name |-> n, entityType |-> t, observations |-> obs]
Observations(n, c) == [entityName |-> n, contents |-> c]
Relation(f, t, rt) == [from |-> f, to |-> t, relationType |-> rt]

\* the callers race for one entity name
RaceNames == {"a"}

RaceCreateEntities ==
    OneOf({Entity(n, "T", obs) : n \in RaceNames, obs \in {<<>>, <<"x">>}})
RaceAddObservations == OneOf({Observations(n, <<"x">>) : n \in RaceNames})
RaceCreateRelations == OneOf({Relation(f, t, "r") : f \in RaceNames, t \in RaceNames})
RaceDeleteEntities == OneOf(RaceNames)

Next ==
    \E p \in Procs :
        \/ CallCreateEntities(p, RaceCreateEntities)
        \/ CallAddObservations(p, RaceAddObservations)
        \/ CallCreateRelations(p, RaceCreateRelations)
        \/ DeleteEntities(p, RaceDeleteEntities)
        \/ IngestStep(p)
        \/ CrCreateRelation(p)

Spec == Init /\ [][Next]_vars

(***************************************************************************)
(* SeqSpec: one caller that awaits each call before it makes the next;     *)
(* the ingestion path (entities, observations, vectors).                   *)
(***************************************************************************)
\* the observation lists of a call: none, one, two, the same twice
ContentLists == {<<>>, <<"x">>, <<"y">>, <<"x", "y">>, <<"x", "x">>}

\* (the caller passes the type a reference would create: the stored types are
\* the subject of Spec)
SeqCreateEntities ==
    OneOf({Entity(n, "Unknown", obs) : n \in Names, obs \in {<<>>, <<"x">>, <<"x", "y">>}})

\* one list item, or two: the same entity or another one, the same content or another one
SeqAddObservations ==
    OneOf({Observations(n, c) : n \in Names, c \in ContentLists})
    \cup {<<Observations("a", <<"x">>), Observations(n, <<c>>)>> : n \in Names, c \in Contents}

SeqDeleteObservations ==
    OneOf({[entityName |-> n, observations |-> <<c>>] : n \in Names, c \in Contents})

SeqDeleteEntities == OneOf(Names)

SeqNext ==
    \/ CallCreateEntities(1, SeqCreateEntities)
    \/ CallAddObservations(1, SeqAddObservations)
    \/ CallDeleteObservations(1, SeqDeleteObservations)
    \/ DeleteEntities(1, SeqDeleteEntities)
    \/ IngestStep(1)
    \/ DoGetEntityId(1) \/ DoDelete(1)

SeqSpec == Init /\ [][SeqNext]_vars

(***************************************************************************)
(* RelSpec: one caller; relations, and the cascade of deleteEntities.      *)
(***************************************************************************)
AllRelations == {Relation(f, t, rt) : f \in Names, t \in Names, rt \in RelationTypes}

RelCreateEntities == OneOf({Entity(n, "T", obs) : n \in Names, obs \in {<<>>, <<"x">>}})

\* one relation, or two of which the second may repeat the first
RelCreateRelations ==
    OneOf(AllRelations) \cup {<<Relation("a", "b", "r"), r>> : r \in AllRelations}

RelDeleteRelations == OneOf(AllRelations)

RelDeleteEntities == OneOf(Names) \cup {<<"a", "b">>}

RelNext ==
    \/ CallCreateEntities(1, RelCreateEntities)
    \/ CallCreateRelations(1, RelCreateRelations)
    \/ CallDeleteRelations(1, RelDeleteRelations)
    \/ DeleteEntities(1, RelDeleteEntities)
    \/ IngestStep(1)
    \/ CrCreateRelation(1)
    \/ DrGetFrom(1) \/ DrGetTo(1) \/ DrDelete(1)

RelSpec == Init /\ [][RelNext]_vars

(***************************************************************************)
(* KnowledgeGraphManager.embedTexts, await by await; EmbedSpec: callers    *)
(* that use it concurrently, the first of them before the model is loaded. *)
(***************************************************************************)
\* embedTexts: the for loop over textArr at index r.k
EmLoop(r) ==
    IF r.k > Len(r.args) THEN [r EXCEPT !.pc = "done", !.results = r.embeddings]
    ELSE [r EXCEPT !.pc = "em_text"]

\* if (!this.#embedder) { this.#embedder = await pipeline(...) }: up to the await
CallEmbedTexts(p, inputs) ==
    /\ proc[p].pc = "idle"
    /\ \E textArr \in inputs :
          proc' = [proc EXCEPT ![p] =
                      IF embedder = "null"
                      THEN [Start(p, "embedTexts", textArr) EXCEPT !.pc = "em_load"]
                      ELSE EmLoop([Start(p, "embedTexts", textArr) EXCEPT !.k = 1])]
    /\ pipelineLoads' = IF embedder = "null" THEN pipelineLoads + 1 ELSE pipelineLoads
    /\ UNCHANGED <<backend, vectorEnabled, db, tx, contextVars, embedder, searchVars, imp, peerGraphCache, dbm, mig>>

\* pipeline(...) settles: the model is assigned to this.#embedder, or the load failed
EmLoaded(p) ==
    LET r == proc[p] IN
    /\ r.pc = "em_load"
    /\ \E fault \in FaultChoices :
          IF fault
          THEN /\ proc' = [proc EXCEPT ![p] = Raise(r, "model load failed")]
               /\ pipelineLoads' = pipelineLoads - 1
               /\ UNCHANGED embedder
          ELSE /\ proc' = [proc EXCEPT ![p] = EmLoop([r EXCEPT !.k = 1])]
               /\ embedder' = "pipeline"
               /\ UNCHANGED pipelineLoads
    /\ UNCHANGED <<backend, vectorEnabled, db, tx, contextVars, searchVars, imp, peerGraphCache, dbm, mig>>

\* const result = await this.#embedder(text, ...); outputs.push(...)
EmText(p) ==
    LET r == proc[p] IN
    /\ r.pc = "em_text"
    /\ \E fault \in FaultChoices :
          proc' = [proc EXCEPT ![p] =
                      IF fault THEN Raise(r, "embedding failed")
                      ELSE EmLoop([r EXCEPT !.embeddings = Append(@, Embed(r.args[r.k])),
                                            !.k = @ + 1])]
    /\ UNCHANGED <<backend, vectorEnabled, db, tx, contextVars, embedVars, searchVars, imp, peerGraphCache, dbm, mig>>

EmbedInputs == {<<>>, <<"x">>, <<"x", "y">>}

EmbedNext ==
    \E p \in Procs :
        \/ CallEmbedTexts(p, EmbedInputs)
        \/ EmLoaded(p)
        \/ EmText(p)
        \/ Return(p)

EmbedSpec == Init /\ [][EmbedNext]_vars

(***************************************************************************)
(* CacheSpec: the ContextManager over a relation graph that no call        *)
(* changes; one caller, so a call's awaits are not interleaved with        *)
(* another call and each call is one step.                                 *)
(***************************************************************************)
MaxNode == 4
MaxTime == 2

CacheNodes == 1..MaxNode

\* the relations n -> n+1, any subset of which the store may hold
ChainRelations ==
    {[from_id |-> n, to_id |-> n + 1, relationType |-> "r"] : n \in 1..(MaxNode - 1)}

\* the store after createRelations calls that stored rels
GraphDb(rels) ==
    [EmptyDb EXCEPT !.entities = {[id |-> n, name |-> ToString(n), entityType |-> "Unknown"]
                                     : n \in CacheNodes},
                    !.relations = SetToBag(rels),
                    !.nextEntityId = MaxNode + 1]

CacheInit ==
    /\ backend = "sqlite"
    /\ vectorEnabled = TRUE
    /\ db \in {GraphDb(rels) : rels \in SUBSET ChainRelations}
    /\ tx = <<>>
    /\ proc = [p \in Procs |-> Idle]
    /\ graphCache = clear(0)
    /\ now = 0
    /\ cret = NoCall
    /\ embedder = "null"
    /\ pipelineLoads = 0
    /\ contextCache = EmptyContextCache
    /\ search = SearchIdle
    /\ imp = ImpIdle
    /\ peerGraphCache = clear(0)
    /\ dbm = DbmInit
    /\ mig = MigIdle

\* time passes
Tick ==
    /\ now < MaxTime
    /\ now' = now + 1
    /\ UNCHANGED <<graphCache, cret, storeVars, embedVars, searchVars, imp, peerGraphCache, dbm, mig>>

PreloadGraphSubset(entityIds, depth) ==
    /\ graphCache' = preloadGraphSubset(graphCache, db, entityIds, depth, now)
    /\ cret' = [op |-> "preloadGraphSubset", entityIds |-> entityIds, depth |-> depth]
    /\ UNCHANGED <<now, storeVars, embedVars, searchVars, imp, peerGraphCache, dbm, mig>>

CalculateGraphDistance(from, to, maxDepth) ==
    LET res == calculateGraphDistance(graphCache, db, from, to, maxDepth, now)
    IN  /\ graphCache' = res.cache
        /\ cret' = [op |-> "calculateGraphDistance", from |-> from, to |-> to,
                    maxDepth |-> maxDepth, ret |-> res.ret, oldest |-> res.oldest,
                    at |-> now]
        /\ UNCHANGED <<now, storeVars, embedVars, searchVars, imp, peerGraphCache, dbm, mig>>

GetContextualDistances(entityIds, contextEntityIds) ==
    LET res == getContextualDistances(graphCache, db, entityIds, contextEntityIds, now)
    IN  /\ graphCache' = res.cache
        /\ cret' = [op |-> "getContextualDistances", entityIds |-> entityIds,
                    contextEntityIds |-> contextEntityIds, ret |-> res.ret,
                    oldest |-> res.oldest, at |-> now]
        /\ UNCHANGED <<now, storeVars, embedVars, searchVars, imp, peerGraphCache, dbm, mig>>

\* ContextManager.clearCache()
ClearCache ==
    /\ graphCache' = clear(now)
    /\ contextCache' = [contextCache EXCEPT !.recentEntities = <<>>,
                                            !.lastUpdate = NullTime]
    /\ cret' = [op |-> "clearCache"]
    /\ UNCHANGED <<now, storeVars, embedVars, search, imp, peerGraphCache, dbm, mig>>

\* the callers of CacheSpec pass ids as the ContextManager documents them: strings
CachePairs ==
    {<<String(1), String(MaxNode)>>, <<String(MaxNode), String(1)>>,
     <<String(2), String(2)>>}

CacheNext ==
    \/ Tick
    \/ \E entityIds \in {{String(1)}, {}}, depth \in {1, 2} :
          PreloadGraphSubset(entityIds, depth)
    \/ \E pair \in CachePairs, maxDepth \in {2, 3} :
          CalculateGraphDistance(pair[1], pair[2], maxDepth)
    \/ \E entityIds \in {<<String(MaxNode)>>},
          contextEntityIds \in {<<>>, <<String(1)>>, <<String(2), String(3)>>} :
          GetContextualDistances(entityIds, contextEntityIds)
    \/ ClearCache

CacheSpec == CacheInit /\ [][CacheNext]_vars

(***************************************************************************)
(* KnowledgeGraphManager.searchNodes, openNodes and readGraph, await by    *)
(* await; SearchSpec: one reader over a store that ingestion has filled.   *)
(***************************************************************************)
MaxAccessCount == 2

\* threshold = 0.35, in thousandths
DistanceCap == 350

Max(a, b) == IF a > b THEN a ELSE b

\* ContextManager.#isCacheValid()
isCacheValid(cc, t) == cc.lastUpdate # NullTime /\ t - cc.lastUpdate < cc.ttl

\* PostgreSQL rejects SELECT DISTINCT entity_id ... ORDER BY last_accessed
DistinctOrderBy == "for SELECT DISTINCT, ORDER BY expressions must appear in select list"

RECURSIVE MostRecentFirst(_, _)
\* SELECT DISTINCT entity_id ... ORDER BY last_accessed DESC LIMIT limit over
\* the rows: the lists of ids the statement may give (rows of equal
\* last_accessed come in any order)
MostRecentFirst(rows, limit) ==
    IF limit = 0 \/ rows = {} THEN {<<>>}
    ELSE UNION {{<<r.entity_id>> \o rest
                    : rest \in MostRecentFirst({q \in rows : q.entity_id # r.entity_id},
                                               limit - 1)}
                  : r \in {r \in rows : \A q \in rows : q.last_accessed <= r.last_accessed}}

\* repository.getRecentlyAccessedEntities(limit): what the statement may give,
\* in SQLite the entity ids, most recently accessed first; in PostgreSQL
\* the error of a SELECT DISTINCT ordered by a column it does not select
getRecentlyAccessedEntities(b, d, limit) ==
    IF b = "postgres" THEN {Fail(d, DistinctOrderBy)}
    ELSE {Ok(d, s) : s \in MostRecentFirst(AccessedRows(d), limit)}

\* (mutant) a ContextManager.getRecentlyAccessedEntities that serves the
\* cached list whatever its age
servedFromCache(cc, b, d, limit, t) ==
    IF Len(cc.recentEntities) > 0
    THEN {[cache |-> cc, ret |-> Slice(cc.recentEntities, limit), err |-> "",
           fetched |-> FALSE]}
    ELSE {IF res.err # ""
          THEN [cache |-> cc, ret |-> <<>>, err |-> res.err, fetched |-> TRUE]
          ELSE [cache |-> [cc EXCEPT !.recentEntities = res.ret, !.lastUpdate = t],
                ret |-> Slice(res.ret, limit), err |-> "", fetched |-> TRUE]
             : res \in getRecentlyAccessedEntities(b, d, Min(limit, cc.maxRecentEntities))}

\* ContextManager.getRecentlyAccessedEntities(limit) at time t: the cache
\* after the call, the list returned, and the error the catch swallowed
recentlyAccessedEntities(cc, b, d, limit, t) ==
    IF isCacheValid(cc, t) /\ Len(cc.recentEntities) > 0
    THEN {[cache |-> cc, ret |-> Slice(cc.recentEntities, limit), err |-> "",
           fetched |-> FALSE]}
    ELSE {IF res.err # ""
          THEN [cache |-> cc, ret |-> <<>>, err |-> res.err, fetched |-> TRUE]
          ELSE [cache |-> [cc EXCEPT !.recentEntities = res.ret, !.lastUpdate = t],
                ret |-> Slice(res.ret, limit), err |-> "", fetched |-> TRUE]
             : res \in getRecentlyAccessedEntities(b, d, Min(limit, cc.maxRecentEntities))}

\* searchNodes({query, mode, topK}) up to its first await
CallSearchNodes(mode, query, topK, includeScoreDetails) ==
    /\ search.pc = "idle"
    /\ \A id \in DOMAIN db.stats : db.stats[id].access_count < MaxAccessCount
    /\ search' = [SearchIdle EXCEPT !.op = "searchNodes", !.mode = mode, !.query = query,
                                    !.topK = topK, !.before = db,
                                    !.includeScoreDetails = includeScoreDetails,
                                    !.pc = IF mode = "keyword" THEN "sn_search"
                                           ELSE "sn_embed"]
    /\ UNCHANGED <<storeVars, contextVars, embedVars, contextCache, imp, peerGraphCache, dbm, mig>>

\* const [vector] = await this.embedTexts([query]) (EmbedSpec has its awaits)
SnEmbedTexts ==
    /\ search.pc = "sn_embed"
    /\ \E fault \in FaultChoices :
          IF fault
          THEN /\ search' = [search EXCEPT !.pc = "raised", !.err = "embedding failed"]
               /\ UNCHANGED embedVars
          ELSE /\ search' = [search EXCEPT !.pc = "sn_search",
                                           !.vector = Embed(search.query)]
               /\ embedder' = "pipeline"
               /\ pipelineLoads' = IF embedder = "null" THEN pipelineLoads + 1
                                   ELSE pipelineLoads
    /\ UNCHANGED <<storeVars, contextVars, contextCache, imp, peerGraphCache, dbm, mig>>

\* (mutant) the ids of the first topK rows, however far they are
CandidateIdsNoCap(rows, topK) ==
    [n \in 1..Len(Slice(rows, topK)) |-> Slice(rows, topK)[n].entity_id]

\* searchNodes: the ids of the rows within the distance cap, cut to topK
CandidateIds(rows, topK) ==
    LET kept == Slice(SelectSeq(rows, LAMBDA r : r.distance <= DistanceCap), topK)
    IN  [n \in 1..Len(kept) |-> kept[n].entity_id]

\* searchNodes with the candidate ids: the short circuit, or #applyScoring
SnCandidates(r, ids) ==
    IF Len(ids) = 0 THEN [r EXCEPT !.pc = "done", !.result = EmptyResult]
    ELSE [r EXCEPT !.pc = "as_fetch", !.ids = ids]

\* await keywordSearch(query) / semanticSearch(vector, ...) / hybridSearch(...)
SnSearch ==
    /\ search.pc = "sn_search"
    /\ IF search.mode = "keyword"
       THEN search' = SnCandidates(search, SetToSeq(keywordSearch(backend, db, search.query)))
       ELSE IF backend = "postgres" /\ ~vectorEnabled
       THEN search' = [search EXCEPT !.pc = "raised",
                                     !.err = "pgvector is required but not available"]
       ELSE \E rows \in (IF search.mode = "semantic"
                         THEN semanticSearch(db, search.vector,
                                             Max(search.topK * 2, search.topK + 5))
                         ELSE hybridSearch(db, search.query, search.vector,
                                           Max(search.topK * 3, search.topK + 10),
                                           DistanceCap)) :
               search' = SnCandidates(search, CandidateIds(rows, search.topK))
    /\ UNCHANGED <<storeVars, contextVars, embedVars, contextCache, imp, peerGraphCache, dbm, mig>>

\* #applyScoring: const entityData = await fetchEntitiesWithDetails(entityIds);
\* normalized = entityData.map(row => ({...row, entity_id: String(row.entity_id)}))
AsFetch ==
    /\ search.pc = "as_fetch"
    /\ \E entityData \in fetchEntitiesWithDetails(backend, db, SeqRange(search.ids)) :
          search' = [search EXCEPT !.pc = "as_context",
                        !.entityData = {[row EXCEPT !.entity_id = String(@)]
                                           : row \in entityData}]
    /\ UNCHANGED <<storeVars, contextVars, embedVars, contextCache, imp, peerGraphCache, dbm, mig>>

\* prepareSearchContext: getRecentlyAccessedEntities(5), from contextCache
\* while that is valid, and preloadGraphSubset(recentEntityIds, 2)
AsContext ==
    /\ search.pc = "as_context"
    /\ \E res \in recentlyAccessedEntities(contextCache, backend, db, 5, now) :
          /\ contextCache' = res.cache
          /\ graphCache' = preloadGraphSubset(graphCache, db, SeqRange(res.ret), 2, now)
          /\ search' = [search EXCEPT !.pc = "as_score", !.recent = res.ret,
                                      !.swallowed = res.err]
    /\ UNCHANGED <<storeVars, now, cret, embedVars, imp, peerGraphCache, dbm, mig>>

\* #applyScoring after the sort: updateAccessStats(foundIds) if there are any
AsScored(r, scored) ==
    [r EXCEPT !.scored = scored,
              !.pc = IF Len(scored) > 0 THEN "as_update" ELSE "as_open"]

\* scoreSearchResults(normalized, searchContext) and scored.sort(...)
AsScore ==
    /\ search.pc = "as_score"
    /\ IF search.entityData = {}
       THEN /\ search' = AsScored(search, <<>>)
            /\ UNCHANGED graphCache
       ELSE LET res == getContextualDistances(
                           graphCache, db,
                           SetToSeq({r.entity_id : r \in search.entityData}),
                           search.recent, now)
            IN  /\ graphCache' = res.cache
                /\ \E scored \in SortByScore(ScoredRows(search.entityData, res.ret, now)) :
                      search' = AsScored(search, scored)
    /\ UNCHANGED <<storeVars, now, cret, embedVars, contextCache, imp, peerGraphCache, dbm, mig>>

\* ContextManager.updateAccessStats(foundIds): the repository's UPDATE, and
\* contextCache.lastUpdate = null
AsUpdateAccessStats ==
    /\ search.pc = "as_update"
    /\ db' = updateAccessStats(db, {Number(search.scored[n].entity_id)
                                       : n \in 1..Len(search.scored)}, now).db
    /\ contextCache' = [contextCache EXCEPT !.lastUpdate = NullTime]
    /\ search' = [search EXCEPT !.pc = "as_open", !.at = now]
    /\ UNCHANGED <<backend, vectorEnabled, tx, proc, contextVars, embedVars, imp, peerGraphCache, dbm, mig>>

\* the reader receives what repository.openNodes or readGraph returned: the
\* rows of SELECT * FROM entities, in the order the database gave them
Opened(r, res, entities) ==
    [r EXCEPT !.pc = "done",
              !.result = [entities |-> entities, relations |-> res.ret.relations]]

\* scored[index]?.score when index is past the end of scored
Undefined == -1

\* fullDetails.entities.map((entity, index) =>
\*     ({...entity, score: scored[index]?.score, ...}))
withScores(entities, scored) ==
    [index \in 1..Len(entities) |->
        [name |-> entities[index].name, entityType |-> entities[index].entityType,
         observations |-> entities[index].observations,
         score |-> IF index <= Len(scored) THEN scored[index].score ELSE Undefined]]

\* #applyScoring: const fullDetails = await this.openNodes(entityNames), and
\* the scores attached to its entities if (includeScoreDetails)
AsOpenNodes ==
    /\ search.pc = "as_open"
    /\ LET res == openNodes(db, {search.scored[n].name : n \in 1..Len(search.scored)})
       IN  /\ db' = res.db
           /\ \E entities \in Perms(res.ret.entities) :
                 search' = Opened(search, res,
                                  IF search.includeScoreDetails
                                  THEN withScores(entities, search.scored)
                                  ELSE entities)
    /\ UNCHANGED <<backend, vectorEnabled, tx, proc, contextVars, embedVars, contextCache, imp, peerGraphCache, dbm, mig>>

\* KnowledgeGraphManager.openNodes(names)
OpenNodes(names) ==
    /\ search.pc = "idle"
    /\ LET res == openNodes(db, names)
       IN  /\ db' = res.db
           /\ \E entities \in Perms(res.ret.entities) :
                 search' = Opened([SearchIdle EXCEPT !.op = "openNodes", !.before = db],
                                  res, entities)
    /\ UNCHANGED <<backend, vectorEnabled, tx, proc, contextVars, embedVars, contextCache, imp, peerGraphCache, dbm, mig>>

\* KnowledgeGraphManager.readGraph()
ReadGraph ==
    /\ search.pc = "idle"
    /\ LET res == readGraph(db)
       IN  /\ db' = res.db
           /\ \E entities \in Perms(res.ret.entities) :
                 search' = Opened([SearchIdle EXCEPT !.op = "readGraph", !.before = db],
                                  res, entities)
    /\ UNCHANGED <<backend, vectorEnabled, tx, proc, contextVars, embedVars, contextCache, imp, peerGraphCache, dbm, mig>>

\* the reader takes the result, or the error, of its call
SearchReturn ==
    /\ search.pc \in {"done", "raised"}
    /\ search' = SearchIdle
    /\ UNCHANGED <<storeVars, contextVars, embedVars, contextCache, imp, peerGraphCache, dbm, mig>>

\* the store after createEntities([{a, T, obsA}, {b, T, <<"x", "y">>}]), then
\* createRelations(rels): entity 1 has the contents obsA (observation 1),
\* entity 2 "x" and "y" (observations 2 and 3); createdAt is the created_at
\* the schema's default gave the rows
SearchDb(obsA, rels, createdAt, vectors) ==
    LET observations ==
            {[id |-> 1, entity_id |-> 1, content |-> c] : c \in obsA}
            \cup {[id |-> 2, entity_id |-> 2, content |-> "x"],
                  [id |-> 3, entity_id |-> 2, content |-> "y"]}
    IN  [entities |-> {[id |-> 1, name |-> "a", entityType |-> "T"],
                       [id |-> 2, name |-> "b", entityType |-> "T"]},
         observations |-> observations,
         relations |-> SetToBag(rels),
         obs_vec |-> IF vectors
                     THEN {[observation_id |-> o.id, entity_id |-> o.entity_id,
                            embedding |-> Embed(o.content)] : o \in observations}
                     ELSE {},
         nextEntityId |-> 3, nextObsId |-> 4,
         stats |-> [id \in {o.id : o \in observations} |->
                       [DefaultStats EXCEPT !.created_at = createdAt]]]

\* SQLite after deleteEntities(["a"]): obs_vec keeps the row of the deleted
\* observation
OrphanDb ==
    [entities |-> {[id |-> 2, name |-> "b", entityType |-> "T"]},
     observations |-> {[id |-> 2, entity_id |-> 2, content |-> "y"]},
     relations |-> EmptyBag,
     obs_vec |-> {[observation_id |-> 1, entity_id |-> 1, embedding |-> Embed("x")],
                  [observation_id |-> 2, entity_id |-> 2, embedding |-> Embed("y")]},
     nextEntityId |-> 3, nextObsId |-> 3, stats |-> <<>>]

\* the store after createEntities([{a, T, <<"z">>}, {b, T, <<"x", "y">>}])
\* when the embedding of a's observation failed: the observation is stored
\* without a vector
UnembeddedDb ==
    [SearchDb({"z"}, {}, NullTime, TRUE)
        EXCEPT !.obs_vec = {v \in @ : v.entity_id = 2}]

SearchInit ==
    /\ backend \in Backends
    /\ vectorEnabled \in (IF backend = "sqlite" THEN {TRUE} ELSE BOOLEAN)
    /\ db \in {EmptyDb}
              \cup {SearchDb(obsA, rels, createdAt, vectorEnabled) :
                        obsA \in {{}, {"x"}},
                        rels \in {{}, {[from_id |-> 1, to_id |-> 2, relationType |-> "r"]}},
                        createdAt \in {NullTime, 0}}
              \cup {SearchDb({"z"}, {}, NullTime, vectorEnabled)}
              \cup (IF vectorEnabled THEN {UnembeddedDb} ELSE {})
              \cup (IF backend = "sqlite" THEN {OrphanDb} ELSE {})
    /\ tx = <<>>
    /\ proc = [p \in Procs |-> Idle]
    /\ graphCache = clear(0)
    /\ now = 0
    /\ cret = NoCall
    /\ embedder = "null"
    /\ pipelineLoads = 0
    /\ contextCache = EmptyContextCache
    /\ search = SearchIdle
    /\ imp = ImpIdle
    /\ peerGraphCache = clear(0)
    /\ dbm = DbmInit
    /\ mig = MigIdle

SearchModes == {"keyword", "semantic", "hybrid"}

SearchNext ==
    \/ Tick
    \/ \E mode \in SearchModes, query \in Queries, topK \in {1, 2} :
          CallSearchNodes(mode, query, topK, FALSE)
    \/ SnEmbedTexts
    \/ SnSearch
    \/ AsFetch
    \/ AsContext
    \/ AsScore
    \/ AsUpdateAccessStats
    \/ AsOpenNodes
    \/ \E names \in SUBSET Names : OpenNodes(names)
    \/ ReadGraph
    \/ SearchReturn

SearchSpec == SearchInit /\ [][SearchNext]_vars

(***************************************************************************)
(* Two ContextManager instances over one repository; RecentSpec: their     *)
(* calls, one after the other, over a store whose entities were accessed   *)
(* before.  contextCache is the one object of the module context-manager.js*)
(* that both instances use; each has its own GraphCache.                   *)
(***************************************************************************)
Instances == {"this", "peer"}

RecentNodes == 1..(MaxRecentEntities + 1)

\* the store after createEntities of the entities n, each with one
\* observation, a relation 1 -> 2, and searches that returned the entities
\* of accessed one after the other, entity n last accessed at n - 20
RecentDb(accessed) ==
    [EmptyDb EXCEPT
        !.entities = {[id |-> n, name |-> ToString(n), entityType |-> "Unknown"]
                         : n \in RecentNodes},
        !.observations = {[id |-> n, entity_id |-> n, content |-> "x"] : n \in RecentNodes},
        !.relations = SetToBag({[from_id |-> 1, to_id |-> 2, relationType |-> "r"]}),
        !.nextEntityId = MaxRecentEntities + 2,
        !.nextObsId = MaxRecentEntities + 2,
        !.stats = [n \in RecentNodes |->
                      IF n \in accessed
                      THEN [DefaultStats EXCEPT !.last_accessed = n - 20,
                                                !.access_count = 1]
                      ELSE DefaultStats]]

RecentInit ==
    /\ backend \in Backends
    /\ vectorEnabled = TRUE
    /\ db \in {RecentDb(RecentNodes), RecentDb({1, 2, 3})}
    /\ tx = <<>>
    /\ proc = [p \in Procs |-> Idle]
    /\ graphCache = clear(0)
    /\ now = 0
    /\ cret = NoCall
    /\ embedder = "null"
    /\ pipelineLoads = 0
    /\ contextCache = EmptyContextCache
    /\ search = SearchIdle
    /\ imp = ImpIdle
    /\ peerGraphCache = clear(0)
    /\ dbm = DbmInit
    /\ mig = MigIdle

\* ContextManager.getRecentlyAccessedEntities(limit) of the instance by
GetRecentlyAccessedEntities(by, limit) ==
    /\ \E res \in recentlyAccessedEntities(contextCache, backend, db, limit, now) :
          /\ contextCache' = res.cache
          /\ cret' = [op |-> "getRecentlyAccessedEntities", by |-> by, limit |-> limit,
                      ret |-> res.ret, err |-> res.err, fetched |-> res.fetched,
                      stale |-> ~isCacheValid(contextCache, now),
                      cachedAt |-> contextCache.lastUpdate, at |-> now]
    /\ UNCHANGED <<graphCache, now, storeVars, embedVars, search, imp, peerGraphCache, dbm, mig>>

\* ContextManager.updateAccessStats(entityIds) of the instance by
UpdateAccessStats(by, entityIds) ==
    /\ \A id \in DOMAIN db.stats : db.stats[id].access_count <= MaxAccessCount
    /\ db' = updateAccessStats(db, entityIds, now).db
    /\ contextCache' = [contextCache EXCEPT !.lastUpdate = NullTime]
    /\ cret' = [op |-> "updateAccessStats", by |-> by, entityIds |-> entityIds]
    /\ UNCHANGED <<backend, vectorEnabled, tx, proc, graphCache, now, embedVars, search,
                   imp, peerGraphCache, dbm, mig>>

\* clearCache() of the instance by: the module's contextCache, and the
\* instance's own GraphCache
CacheCleared(by, cc) ==
    /\ contextCache' = [cc EXCEPT !.recentEntities = <<>>, !.lastUpdate = NullTime]
    /\ graphCache' = IF by = "this" THEN clear(now) ELSE graphCache
    /\ peerGraphCache' = IF by = "peer" THEN clear(now) ELSE peerGraphCache

\* ContextManager.clearCache() of the instance by
InstanceClearCache(by) ==
    /\ CacheCleared(by, contextCache)
    /\ cret' = [op |-> "clearCache", by |-> by]
    /\ UNCHANGED <<now, storeVars, embedVars, search, imp, dbm, mig>>

\* ContextManager.setCacheTTL(seconds) of the instance by, the ttl in ticks:
\* contextCache.ttl = seconds * 1000; this.clearCache()
SetCacheTTL(by, ttl) ==
    /\ CacheCleared(by, [contextCache EXCEPT !.ttl = ttl])
    /\ cret' = [op |-> "setCacheTTL", by |-> by, ttl |-> ttl]
    /\ UNCHANGED <<now, storeVars, embedVars, search, imp, dbm, mig>>

\* ContextManager.preloadGraphSubset(entityIds, depth) of the instance by
InstancePreloadGraphSubset(by, entityIds, depth) ==
    /\ graphCache' = IF by = "this"
                     THEN preloadGraphSubset(graphCache, db, entityIds, depth, now)
                     ELSE graphCache
    /\ peerGraphCache' = IF by = "peer"
                         THEN preloadGraphSubset(peerGraphCache, db, entityIds, depth, now)
                         ELSE peerGraphCache
    /\ cret' = [op |-> "preloadGraphSubset", by |-> by, entityIds |-> entityIds,
                depth |-> depth]
    /\ UNCHANGED <<now, storeVars, embedVars, searchVars, imp, dbm, mig>>

RecentNext ==
    \/ Tick
    \/ \E by \in Instances, limit \in {5, MaxRecentEntities + 2} :
          GetRecentlyAccessedEntities(by, limit)
    \/ \E by \in Instances : UpdateAccessStats(by, {1})
    \/ \E by \in Instances : InstanceClearCache(by)
    \/ \E by \in Instances, ttl \in {CacheTtl, CacheTtl + 1} : SetCacheTTL(by, ttl)
    \/ \E by \in Instances : InstancePreloadGraphSubset(by, {String(1)}, 1)

RecentSpec == RecentInit /\ [][RecentNext]_vars

(***************************************************************************)
(* searchNodes with includeScoreDetails; DetailSpec: keyword searches that *)
(* ask for the scores, one after another over the stores of SearchSpec.    *)
(***************************************************************************)
DetailNext ==
    \/ Tick
    \/ \E query \in Queries : CallSearchNodes("keyword", query, 2, TRUE)
    \/ SnSearch
    \/ AsFetch
    \/ AsContext
    \/ AsScore
    \/ AsUpdateAccessStats
    \/ AsOpenNodes
    \/ SearchReturn

DetailSpec == SearchInit /\ [][DetailNext]_vars

(***************************************************************************)
(* scoring-utils.js alone; ScoreSpec: getContextualScore applied to two    *)
(* distances, each null or a number of hops.                               *)
(***************************************************************************)
MaxScoredDistance == 6

ScoredDistances == {NullDistance} \cup 0..MaxScoredDistance

ScoreInit ==
    /\ backend \in Backends
    /\ vectorEnabled = TRUE
    /\ db = EmptyDb
    /\ tx = <<>>
    /\ proc = [p \in Procs |-> Idle]
    /\ graphCache = clear(0)
    /\ now = 0
    /\ cret \in {[op |-> "scoring", distance |-> d, farther |-> e]
                    : d \in ScoredDistances, e \in ScoredDistances}
    /\ embedder = "null"
    /\ pipelineLoads = 0
    /\ contextCache = EmptyContextCache
    /\ search = SearchIdle
    /\ imp = ImpIdle
    /\ peerGraphCache = clear(0)
    /\ dbm = DbmInit
    /\ mig = MigIdle

\* getContextualScore(distance) and getContextualScore(farther)
GetContextualScore ==
    /\ cret.op = "scoring"
    /\ cret' = [op |-> "getContextualScore", distance |-> cret.distance,
                farther |-> cret.farther, ret |-> getContextualScore(cret.distance),
                retFarther |-> getContextualScore(cret.farther)]
    /\ UNCHANGED <<graphCache, now, storeVars, embedVars, searchVars, imp, peerGraphCache, dbm, mig>>

ScoreNext == GetContextualScore

ScoreSpec == ScoreInit /\ [][ScoreNext]_vars

(***************************************************************************)
(* KnowledgeGraphManager.setImportance, await by await; ImportanceSpec:    *)
(* one caller that sets importance levels, adds observations and searches  *)
(* by keyword, one call after the other.                                   *)
(***************************************************************************)
\* Object.values(ImportanceLevel)
ImportanceLevel == {"critical", "important", "normal", "temporary", "deprecated"}

\* the levels the caller passes: two of the enum, and one that is not
ImportanceInputs == {"critical", "temporary", "urgent"}

\* (mutant) an error that does not say which entity
NotFoundUnnamed(entityName) == <<"Entity not found">>

\* `Entity "${entityName}" not found`
NotFound(entityName) == <<"Entity \"", entityName, "\" not found">>

\* `Invalid importance level: ${importance}. Use ImportanceLevel enum values.`
InvalidLevel(importance) ==
    <<"Invalid importance level: ", importance, ". Use ImportanceLevel enum values.">>

\* the message of the object setImportance returns after the UPDATE
ImportanceMessage(success, entityName, importance) ==
    IF success
    THEN <<"Importance set to '", importance, "' for entity '", entityName, "'">>
    ELSE <<"Failed to set importance for entity '", entityName, "'">>

\* setImportance(entityName, importance) up to its first await
CallSetImportance(entityName, importance) ==
    /\ imp.pc = "idle"
    /\ search.pc = "idle"
    /\ imp' = [ImpIdle EXCEPT !.pc = "si_lookup", !.entityName = entityName,
                              !.importance = importance, !.before = db,
                              !.lastSet = imp.lastSet]
    /\ UNCHANGED <<storeVars, contextVars, embedVars, searchVars, peerGraphCache, dbm, mig>>

\* const entityId = await this.getEntityId(entityName);
\* if (!entityId) return {success: false, error: `Entity "..." not found`}
SiGetEntityId ==
    /\ imp.pc = "si_lookup"
    /\ LET entityId == getEntityId(db, imp.entityName)
       IN  imp' = IF entityId = Null
                  THEN [imp EXCEPT !.pc = "done",
                                   !.ret = [success |-> FALSE,
                                            error |-> NotFound(imp.entityName),
                                            message |-> <<>>]]
                  ELSE [imp EXCEPT !.pc = "si_update", !.entityId = entityId]
    /\ UNCHANGED <<storeVars, contextVars, embedVars, searchVars, peerGraphCache, dbm, mig>>

\* return {success, entityName, importance, message}
SetImportanceReturned(r, success) ==
    [r EXCEPT !.pc = "done",
              !.ret = [success |-> success, error |-> <<>>,
                       message |-> ImportanceMessage(success, r.entityName, r.importance)],
              !.lastSet[r.entityName] = IF success THEN r.importance ELSE @]

\* (mutant) a ContextManager.setImportance that passes every level on to the
\* repository
SiSetImportanceUnchecked ==
    /\ imp.pc = "si_update"
    /\ LET res == setImportance(db, imp.entityId, imp.importance)
       IN  /\ db' = res.db
           /\ imp' = SetImportanceReturned(imp, res.ret)
    /\ UNCHANGED <<backend, vectorEnabled, tx, proc, contextVars, embedVars, searchVars, peerGraphCache, dbm, mig>>

\* const success = await this.#searchContextManager.setImportance(entityId,
\* importance): ContextManager.setImportance throws on a level outside the
\* enum, and the catch returns {success: false, error: error.message};
\* otherwise the repository's UPDATE runs
SiSetImportance ==
    /\ imp.pc = "si_update"
    /\ IF imp.importance \notin ImportanceLevel
       THEN /\ imp' = [imp EXCEPT !.pc = "done",
                                  !.ret = [success |-> FALSE,
                                           error |-> InvalidLevel(imp.importance),
                                           message |-> <<>>]]
            /\ db' = db
       ELSE LET res == setImportance(db, imp.entityId, imp.importance)
            IN  /\ db' = res.db
                /\ imp' = SetImportanceReturned(imp, res.ret)
    /\ UNCHANGED <<backend, vectorEnabled, tx, proc, contextVars, embedVars, searchVars, peerGraphCache, dbm, mig>>

\* the caller takes the object setImportance returned
SiReturn ==
    /\ imp.pc = "done"
    /\ imp' = [ImpIdle EXCEPT !.lastSet = imp.lastSet]
    /\ UNCHANGED <<storeVars, contextVars, embedVars, searchVars, peerGraphCache, dbm, mig>>

\* addObservations([{entityName, contents: [content]}]) for a stored entity,
\* run to its end with no other call in between (Spec has its awaits): the
\* observation, and its vector where the backend stores vectors
ImAddObservations(entityName, content) ==
    /\ imp.pc = "idle"
    /\ search.pc = "idle"
    /\ getEntityId(db, entityName) # Null
    /\ LET entityId == getEntityId(db, entityName)
           res == insertObservation(db, entityId, content)
       IN  /\ res.ret.inserted
           /\ db' = IF vectorEnabled
                     THEN [res.db EXCEPT !.obs_vec =
                              putVector(@, [observation_id |-> res.ret.observationId,
                                            entity_id |-> entityId,
                                            embedding |-> Embed(content)])]
                     ELSE res.db
    /\ UNCHANGED <<backend, vectorEnabled, tx, proc, nonStoreVars>>

\* searchNodes({query, mode: 'keyword'}) once no setImportance call is open
ImSearchNodes(query) ==
    /\ imp.pc = "idle"
    /\ CallSearchNodes("keyword", query, 2, FALSE)

\* the store after createEntities([{a, T, obsA}, {b, T, <<"x", "y">>}]), or
\* after createEntities([{b, T, <<"x", "y">>}]) alone
ImportanceInit ==
    /\ backend \in Backends
    /\ vectorEnabled \in (IF backend = "sqlite" THEN {TRUE} ELSE BOOLEAN)
    /\ db \in {SearchDb(obsA, {}, NullTime, vectorEnabled) : obsA \in {{}, {"x"}}}
              \cup {[SearchDb({}, {}, NullTime, vectorEnabled)
                        EXCEPT !.entities = {e \in @ : e.id = 2}]}
    /\ tx = <<>>
    /\ proc = [p \in Procs |-> Idle]
    /\ graphCache = clear(0)
    /\ now = 0
    /\ cret = NoCall
    /\ embedder = "null"
    /\ pipelineLoads = 0
    /\ contextCache = EmptyContextCache
    /\ search = SearchIdle
    /\ imp = ImpIdle
    /\ peerGraphCache = clear(0)
    /\ dbm = DbmInit
    /\ mig = MigIdle

ImportanceNext ==
    \/ \E entityName \in Names, importance \in ImportanceInputs :
          CallSetImportance(entityName, importance)
    \/ SiGetEntityId
    \/ SiSetImportance
    \/ SiReturn
    \/ \E entityName \in Names : ImAddObservations(entityName, "w")
    \/ ImSearchNodes("x")
    \/ SnSearch
    \/ AsFetch
    \/ AsContext
    \/ AsScore
    \/ AsUpdateAccessStats
    \/ AsOpenNodes
    \/ SearchReturn

ImportanceSpec == ImportanceInit /\ [][ImportanceNext]_vars

(***************************************************************************)
(* SqliteDbManager.db() and PostgresDbManager.db(), await by await;        *)
(* DbSpec: callers that ask the one manager for its handle, at any time.   *)
(* Loading the extension and the initialization of either backend may      *)
(* fail.  The PRAGMA and the extension are taken in one step, and so is    *)
(* PostgreSQL's #initialize, whose statements run in one transaction.      *)
(***************************************************************************)
\* return this.#db (return this.#pool): the caller gets the handle, of a
\* database that is or is not initialized at that time
DbReturned(m, c) ==
    [m EXCEPT !.caller[c] = [pc |-> "done", got |-> "handle", gotReady |-> m.ready]]

\* the call raises what loadExtension, #createTables, #applyMigrations or
\* #initialize threw
DbRaised(m, c) ==
    [m EXCEPT !.caller[c] = [pc |-> "done", got |-> "error", gotReady |-> FALSE]]

\* db() up to its first await: if (!this.#db) { ... await open(...) in
\* SQLite; if (!this.#pool) { this.#pool = new Pool(...); await
\* this.#initialize() in PostgreSQL; else the handle is returned
DbCall(c) ==
    /\ dbm.caller[c].pc = "idle"
    /\ dbm' = IF dbm.handle THEN DbReturned(dbm, c)
              ELSE IF backend = "sqlite"
              THEN [dbm EXCEPT !.caller[c].pc = "open"]
              ELSE [dbm EXCEPT !.handle = TRUE, !.opens = @ + 1,
                               !.caller[c].pc = "initialize"]
    /\ UNCHANGED <<storeVars, contextVars, embedVars, searchVars, imp, peerGraphCache, mig>>

\* this.#db = await open({filename, driver})
DbOpen(c) ==
    /\ dbm.caller[c].pc = "open"
    /\ dbm' = [dbm EXCEPT !.handle = TRUE, !.opens = @ + 1,
                          !.caller[c].pc = "extension"]
    /\ UNCHANGED <<storeVars, contextVars, embedVars, searchVars, imp, peerGraphCache, mig>>

\* await this.#db.exec('PRAGMA foreign_keys=ON;'); try { await
\* loadSqliteVec(this.#db) } catch (err) { throw err }
DbLoadExtension(c) ==
    /\ dbm.caller[c].pc = "extension"
    /\ \E loaded \in BOOLEAN :
          dbm' = IF loaded THEN [dbm EXCEPT !.caller[c].pc = "tables"]
                 ELSE DbRaised(dbm, c)
    /\ UNCHANGED <<storeVars, contextVars, embedVars, searchVars, imp, peerGraphCache, mig>>

\* await this.#createTables()
DbCreateTables(c) ==
    /\ dbm.caller[c].pc = "tables"
    /\ dbm' = [dbm EXCEPT !.caller[c].pc = "migrations"]
    /\ UNCHANGED <<storeVars, contextVars, embedVars, searchVars, imp, peerGraphCache, mig>>

\* await this.#applyMigrations(); return this.#db
DbApplyMigrations(c) ==
    /\ dbm.caller[c].pc = "migrations"
    /\ \E migrated \in BOOLEAN :
          dbm' = IF migrated THEN DbReturned([dbm EXCEPT !.ready = TRUE], c)
                 ELSE DbRaised(dbm, c)
    /\ UNCHANGED <<storeVars, contextVars, embedVars, searchVars, imp, peerGraphCache, mig>>

\* PostgresDbManager: await this.#initialize(); return this.#pool
DbInitialize(c) ==
    /\ dbm.caller[c].pc = "initialize"
    /\ \E committed \in BOOLEAN :
          dbm' = IF committed THEN DbReturned([dbm EXCEPT !.ready = TRUE], c)
                 ELSE DbRaised(dbm, c)
    /\ UNCHANGED <<storeVars, contextVars, embedVars, searchVars, imp, peerGraphCache, mig>>

\* the caller takes the handle, or the error, of its call
DbReturn(c) ==
    /\ dbm.caller[c].pc = "done"
    /\ dbm' = [dbm EXCEPT !.caller[c] = DbIdle]
    /\ UNCHANGED <<storeVars, contextVars, embedVars, searchVars, imp, peerGraphCache, mig>>

DbNext ==
    \/ \E c \in DbCallers : DbCall(c)
    \/ \E c \in DbCallers : DbOpen(c)
    \/ \E c \in DbCallers : DbLoadExtension(c)
    \/ \E c \in DbCallers : DbCreateTables(c)
    \/ \E c \in DbCallers : DbApplyMigrations(c)
    \/ \E c \in DbCallers : DbInitialize(c)
    \/ \E c \in DbCallers : DbReturn(c)

DbSpec == Init /\ [][DbNext]_vars

(***************************************************************************)
(* SQLiteMigrationManager and PostgresMigrationManager, await by await;    *)
(* MigSpec: one caller that migrates and rolls back, one call after the    *)
(* other.  A migration's up and down may fail.                             *)
(***************************************************************************)
\* the versions of the registry (migrations/sqlite/index.js has 1, 2, 3)
MaxVersion == 2

\* the migrations array the caller passes, here latest first
Registry == [n \in 1..MaxVersion |-> MaxVersion + 1 - n]

\* the targetVersion arguments: null, 0, a version, and one past the latest
MigrateTargets == {NullVersion} \cup 0..(MaxVersion + 1)

RECURSIVE SortAscending(_)
\* [...migrations].sort((a, b) => a.version - b.version)
SortAscending(S) ==
    IF S = {} THEN <<>>
    ELSE LET v == CHOOSE x \in S : \A y \in S : x <= y
         IN  <<v>> \o SortAscending(S \ {v})

RECURSIVE SortDescending(_)
\* migrations.sort((a, b) => b.version - a.version)
SortDescending(S) ==
    IF S = {} THEN <<>>
    ELSE LET v == CHOOSE x \in S : \A y \in S : x >= y
         IN  <<v>> \o SortDescending(S \ {v})

\* SELECT MAX(version) FROM migrations; result?.version || 0
getCurrentVersion(records) ==
    IF records = {} THEN 0 ELSE CHOOSE v \in records : \A w \in records : w <= v

\* Math.max(...migrations.map(m => m.version))
LatestVersion(migrations) ==
    CHOOSE v \in SeqRange(migrations) : \A w \in SeqRange(migrations) : w <= v

\* SQLite: targetVersion || Math.max(...); PostgreSQL: targetVersion ??
\* Math.max(0, ...)
MigrateTarget(b, targetVersion, migrations) ==
    IF b = "sqlite"
    THEN IF targetVersion = NullVersion \/ targetVersion = 0
         THEN LatestVersion(migrations) ELSE targetVersion
    ELSE IF targetVersion = NullVersion
         THEN Max(0, LatestVersion(migrations)) ELSE targetVersion

\* migrate(migrations, targetVersion) up to its first await
CallMigrate(targetVersion) ==
    /\ mig.pc = "idle"
    /\ mig' = [mig EXCEPT !.pc = "begin", !.op = "migrate", !.target = targetVersion,
                          !.ret = "none", !.applied = <<>>, !.failed = FALSE,
                          !.before = [schema |-> mig.schema, records |-> mig.records]]
    /\ UNCHANGED <<storeVars, contextVars, embedVars, searchVars, imp, peerGraphCache, dbm>>

\* BEGIN; const currentVersion = await this.getCurrentVersion(); the
\* migrations the loop will apply: those with currentVersion < version <=
\* target, in ascending order
MigBegin ==
    /\ mig.pc = "begin"
    /\ LET currentVersion == getCurrentVersion(mig.records)
           target == MigrateTarget(backend, mig.target, Registry)
           todo == SortAscending({v \in SeqRange(Registry)
                                     : v > currentVersion /\ v <= target})
       IN  mig' = [mig EXCEPT !.tx = <<[schema |-> mig.schema, records |-> mig.records]>>,
                              !.currentVersion = currentVersion, !.todo = todo,
                              !.pc = IF todo = <<>> THEN "commit" ELSE "up"]
    /\ UNCHANGED <<storeVars, contextVars, embedVars, searchVars, imp, peerGraphCache, dbm>>

\* await migration.up(this.#db, silent), which may throw
MigUp ==
    /\ mig.pc = "up"
    /\ \E done \in BOOLEAN :
          mig' = IF done
                 THEN [mig EXCEPT !.schema = @ \cup {Head(mig.todo)}, !.pc = "insert"]
                 ELSE [mig EXCEPT !.failed = TRUE, !.pc = "rollback"]
    /\ UNCHANGED <<storeVars, contextVars, embedVars, searchVars, imp, peerGraphCache, dbm>>

\* INSERT INTO migrations (version, description) VALUES (?, ?), which may
\* throw
MigInsert ==
    /\ mig.pc = "insert"
    /\ \E done \in BOOLEAN :
          mig' = IF done
                 THEN [mig EXCEPT !.records = @ \cup {Head(mig.todo)},
                                  !.applied = Append(@, Head(mig.todo)),
                                  !.todo = Tail(@),
                                  !.pc = IF Tail(mig.todo) = <<>> THEN "commit" ELSE "up"]
                 ELSE [mig EXCEPT !.failed = TRUE, !.pc = "rollback"]
    /\ UNCHANGED <<storeVars, contextVars, embedVars, searchVars, imp, peerGraphCache, dbm>>

\* COMMIT, which may throw, and migrate returns
MigCommit ==
    /\ mig.pc = "commit"
    /\ \E done \in BOOLEAN :
          mig' = IF done THEN [mig EXCEPT !.tx = <<>>, !.pc = "done", !.ret = "ok"]
                 ELSE [mig EXCEPT !.failed = TRUE, !.pc = "rollback"]
    /\ UNCHANGED <<storeVars, contextVars, embedVars, searchVars, imp, peerGraphCache, dbm>>

\* (mutant) a catch that rethrows without ROLLBACK: the transaction's
\* changes stay
MigRollbackNothing ==
    /\ mig.pc = "rollback"
    /\ mig' = [mig EXCEPT !.tx = <<>>, !.pc = "done", !.ret = "raised"]
    /\ UNCHANGED <<storeVars, contextVars, embedVars, searchVars, imp, peerGraphCache, dbm>>

\* catch (error) { ROLLBACK; throw error }
MigRollback ==
    /\ mig.pc = "rollback"
    /\ mig' = [mig EXCEPT !.schema = mig.tx[1].schema, !.records = mig.tx[1].records,
                          !.tx = <<>>, !.pc = "done", !.ret = "raised"]
    /\ UNCHANGED <<storeVars, contextVars, embedVars, searchVars, imp, peerGraphCache, dbm>>

\* rollback(migrations, targetVersion) up to its first await
CallRollback(targetVersion) ==
    /\ mig.pc = "idle"
    /\ mig' = [mig EXCEPT !.pc = "rb_version", !.op = "rollback",
                          !.target = targetVersion,
                          !.ret = "none", !.applied = <<>>, !.failed = FALSE,
                          !.before = [schema |-> mig.schema, records |-> mig.records]]
    /\ UNCHANGED <<storeVars, contextVars, embedVars, searchVars, imp, peerGraphCache, dbm>>

\* const currentVersion = await this.getCurrentVersion(); if (targetVersion
\* >= currentVersion) return; the migrations the loop will undo: those with
\* targetVersion < version <= currentVersion, in descending order
RbVersion ==
    /\ mig.pc = "rb_version"
    /\ LET currentVersion == getCurrentVersion(mig.records)
           todo == SortDescending({v \in SeqRange(Registry)
                                      : v > mig.target /\ v <= currentVersion})
       IN  mig' = IF mig.target >= currentVersion
                  THEN [mig EXCEPT !.currentVersion = currentVersion,
                                   !.pc = "done", !.ret = "nothing"]
                  ELSE [mig EXCEPT !.currentVersion = currentVersion, !.todo = todo,
                                   !.pc = IF todo = <<>> THEN "done" ELSE "rb_down",
                                   !.ret = IF todo = <<>> THEN "ok" ELSE "none"]
    /\ UNCHANGED <<storeVars, contextVars, embedVars, searchVars, imp, peerGraphCache, dbm>>

\* BEGIN; await migration.down(this.#db, silent), which may throw
RbDown ==
    /\ mig.pc = "rb_down"
    /\ \E done \in BOOLEAN :
          mig' = IF done
                 THEN [mig EXCEPT !.tx = <<[schema |-> mig.schema,
                                            records |-> mig.records]>>,
                                  !.schema = @ \ {Head(mig.todo)}, !.pc = "rb_delete"]
                 ELSE [mig EXCEPT !.tx = <<[schema |-> mig.schema,
                                            records |-> mig.records]>>,
                                  !.failed = TRUE, !.pc = "rb_rollback"]
    /\ UNCHANGED <<storeVars, contextVars, embedVars, searchVars, imp, peerGraphCache, dbm>>

\* DELETE FROM migrations WHERE version = ?; COMMIT; and the next migration
\* of the loop, or rollback returns
RbDelete ==
    /\ mig.pc = "rb_delete"
    /\ mig' = [mig EXCEPT !.records = @ \ {Head(mig.todo)}, !.tx = <<>>,
                          !.applied = Append(@, Head(mig.todo)),
                          !.todo = Tail(@),
                          !.pc = IF Tail(mig.todo) = <<>> THEN "done" ELSE "rb_down",
                          !.ret = IF Tail(mig.todo) = <<>> THEN "ok" ELSE "none"]
    /\ UNCHANGED <<storeVars, contextVars, embedVars, searchVars, imp, peerGraphCache, dbm>>

\* catch (error) { ROLLBACK; throw error }: the migrations undone before
\* this one stay undone
RbRollback ==
    /\ mig.pc = "rb_rollback"
    /\ mig' = [mig EXCEPT !.schema = mig.tx[1].schema, !.records = mig.tx[1].records,
                          !.tx = <<>>, !.pc = "done", !.ret = "raised"]
    /\ UNCHANGED <<storeVars, contextVars, embedVars, searchVars, imp, peerGraphCache, dbm>>

\* the caller takes the return, or the error, of its call
MigReturn ==
    /\ mig.pc = "done"
    /\ mig' = [MigIdle EXCEPT !.schema = mig.schema, !.records = mig.records]
    /\ UNCHANGED <<storeVars, contextVars, embedVars, searchVars, imp, peerGraphCache, dbm>>

MigNext ==
    \/ \E targetVersion \in MigrateTargets : CallMigrate(targetVersion)
    \/ MigBegin
    \/ MigUp
    \/ MigInsert
    \/ MigCommit
    \/ MigRollback
    \/ \E targetVersion \in 0..MaxVersion : CallRollback(targetVersion)
    \/ RbVersion
    \/ RbDown
    \/ RbDelete
    \/ RbRollback
    \/ MigReturn

MigSpec == Init /\ [][MigNext]_vars

(***************************************************************************)
(* Properties.                                                             *)
(***************************************************************************)
RowsNamed(n) == {e \in db.entities : e.name = n}
ObsRows(id, c) == {o \in db.observations : o.entity_id = id /\ o.content = c}
VecRows(obsId) == {v \in db.obs_vec : v.observation_id = obsId}
NoDup(s) == \A m, n \in 1..Len(s) : m # n => s[m] # s[n]
InsertedIds(r) == {r.inserted[n].observationId : n \in 1..Len(r.inserted)}

\* C1: two concurrent create-if-absent calls for one name end with exactly
\* one entity row for it, and neither call raises to its caller.
C1_ConvergeWithoutRaising ==
    /\ \A n \in Names : Cardinality(RowsNamed(n)) <= 1
    /\ \A p \in Procs : proc[p].err # "UNIQUE entities.name"

\* C2: in every reachable state at most one entity row exists per name.
C2_OneRowPerName == \A n \in Names : Cardinality(RowsNamed(n)) <= 1

\* a second creation of a stored name was attempted and turned down
C2_Witness ==
    \E p \in Procs :
        /\ proc[p].pc = "raised" /\ proc[p].err = "UNIQUE entities.name"
        /\ Cardinality(RowsNamed("a")) = 1

\* C3: however often a (entity, content) pair is inserted, in one
\* addObservations call or across calls, exactly one observation row is
\* stored for it.
C3_ExactlyOneObservation ==
    /\ \A o1, o2 \in db.observations :
          (o1.entity_id = o2.entity_id /\ o1.content = o2.content) => o1 = o2
    /\ \A p \in Procs :
          LET r == proc[p] IN
          r.pc \in {"ao_insert", "ao_embed", "vec_begin", "vec_row", "vec_commit",
                    "vec_rollback"}
          => \A n \in 1..(r.j - 1) :
                Cardinality(ObsRows(r.entityId, r.aoList[r.aoI].contents[n])) = 1

\* the same pair twice in one call, and a pair stored by an earlier call
C3_Witness ==
    LET r == proc[1] IN
    /\ r.pc = "ao_embed" /\ r.aoList[r.aoI].contents = <<"x", "x">>
    /\ r.before = {"y"} /\ Len(r.inserted) = 1

\* C4: createRelations returns exactly the relations it created: a stored
\* triple is not inserted a second time and is not in the returned list.
C4_OnlyNewRelations ==
    /\ \A row \in BagToSet(db.relations) : CopiesIn(row, db.relations) = 1
    /\ \A p \in Procs :
          LET r == proc[p] IN
          (r.op = "createRelations" /\ r.pc = "done")
          => /\ r.created = r.added
             /\ NoDup(r.created)
             /\ \A n \in 1..Len(r.created) :
                   BagIn([from_id |-> getEntityId(db, r.created[n].from),
                          to_id |-> getEntityId(db, r.created[n].to),
                          relationType |-> r.created[n].relationType], db.relations)

\* the second of two equal triples is not returned
C4_Witness ==
    LET r == proc[1] IN
    /\ r.op = "createRelations" /\ r.pc = "done"
    /\ Len(r.args) = 2 /\ r.args[1] = r.args[2] /\ r.created = <<r.args[1]>>

\* C5: once deleteEntities removed an entity, none of its observations,
\* none of their vector rows and no relation from or to it is stored.
C5_DeleteCascades ==
    [][\A e \in db.entities :
          e.id \notin EntityIds(db')
          => /\ \A o \in db'.observations : o.entity_id # e.id
             /\ \A o \in db.observations :
                   o.entity_id = e.id
                   => \A v \in db'.obs_vec : v.observation_id # o.id
             /\ \A row \in BagToSet(db'.relations) :
                   row.from_id # e.id /\ row.to_id # e.id]_vars

VectorErrors == {"vector write failed", "FOREIGN KEY obs_vec.entity_id"}

\* C6: when a row of a vector batch fails to be written, no vector row of
\* that batch is stored afterwards.
C6_BatchAllOrNothing ==
    \A p \in Procs :
        LET r == proc[p] IN
        (r.pc = "raised" /\ r.err \in VectorErrors)
        => \A id \in InsertedIds(r) : VecRows(id) = {}

\* the second row of a batch failed after the first was written
C6_Witness ==
    LET r == proc[1] IN
    /\ r.pc = "raised" /\ r.err = "vector write failed"
    /\ r.k = 2 /\ Len(r.inserted) = 2

\* C7: when the vector batch fails during addObservations the error reaches
\* the caller, and the observation rows the call inserted stay stored,
\* without vectors.
C7_FailedBatchKeepsObservations ==
    \A p \in Procs :
        LET r == proc[p] IN
        /\ r.err \in VectorErrors => r.pc \in {"vec_rollback", "raised"}
        /\ (r.pc = "raised" /\ r.err \in VectorErrors)
           => \A n \in 1..Len(r.inserted) :
                 /\ [id |-> r.inserted[n].observationId, entity_id |-> r.entityId,
                     content |-> r.inserted[n].content] \in db.observations
                 /\ VecRows(r.inserted[n].observationId) = {}

\* a top-level addObservations call ended with the batch's error
C7_Witness ==
    LET r == proc[1] IN
    /\ r.op = "addObservations" /\ r.pc = "raised" /\ r.err = "vector write failed"
    /\ Len(r.inserted) >= 1

\* C8: a stored observation that a failed ingestion left without a vector
\* gets its vector when addObservations is called again with the same
\* content and nothing fails: after such a call every listed content that
\* is stored has exactly one vector row.
C8_RetryGivesVector ==
    \A p \in Procs :
        LET r == proc[p] IN
        (r.op = "addObservations" /\ r.pc = "done")
        => \A n \in 1..Len(r.args) :
              \A m \in 1..Len(r.args[n].contents) :
                 \A o \in ObsRows(getEntityId(db, r.args[n].entityName),
                                  r.args[n].contents[m]) :
                    Cardinality(VecRows(o.id)) = 1

\* C9: addObservations has embeddings generated for exactly the contents it
\* newly inserted: none that was stored before, none twice.
C9_EmbedsExactlyNew ==
    \A p \in Procs :
        LET r == proc[p] IN
        /\ r.pc \in {"vec_begin", "vec_row", "vec_commit", "vec_rollback"}
           => r.embedded = r.added /\ r.embedded # <<>>
        /\ r.pc \in {"ao_insert", "ao_embed"} => r.embedded = <<>>
        /\ NoDup(r.embedded)
        /\ \A n \in 1..Len(r.embedded) : r.embedded[n] \notin r.before

\* of two listed contents one was stored before: only the other is embedded
C9_Witness ==
    LET r == proc[1] IN
    /\ r.pc = "vec_begin" /\ r.aoList[r.aoI].contents = <<"x", "y">>
    /\ r.before = {"x"} /\ r.embedded = <<"y">>

\* C10: addObservations returns, for each listed entity, exactly the
\* contents this call newly added to it: none stored before, none twice.
C10_ReturnsExactlyNew ==
    \A p \in Procs :
        LET r == proc[p] IN
        (r.op = "addObservations" /\ r.pc = "done")
        => /\ Len(r.results) = Len(r.args)
           /\ \A n \in 1..Len(r.args) :
                 /\ r.results[n].entityName = r.args[n].entityName
                 /\ r.results[n].addedObservations = r.allAdded[n].addedObservations
                 /\ NoDup(r.results[n].addedObservations)
                 /\ \A m \in 1..Len(r.results[n].addedObservations) :
                       /\ r.results[n].addedObservations[m] \notin r.allAdded[n].before
                       /\ \E k \in 1..Len(r.args[n].contents) :
                             r.args[n].contents[k] = r.results[n].addedObservations[m]

\* two list items for one entity with the same content: added once
C10_Witness ==
    LET r == proc[1] IN
    /\ r.op = "addObservations" /\ r.pc = "done" /\ Len(r.args) = 2
    /\ r.results[1].addedObservations = <<"x">>
    /\ r.results[2].entityName = "a" /\ r.results[2].addedObservations = <<>>

\* C11: once an entity is stored, no step of createEntities, addObservations
\* or createRelations changes its entityType, whatever type the call
\* supplies and however the calls interleave.
C11_TypeNeverChanges ==
    [][\A e \in db.entities : \A f \in db'.entities :
          e.id = f.id => f.entityType = e.entityType]_vars

\* C12: createEntities called for a name that is already stored still
\* stores every supplied observation the entity does not have yet.
C12_ExistingEntityGetsObservations ==
    \A p \in Procs :
        LET r == proc[p] IN
        /\ (r.op = "createEntities" /\ r.pc = "done")
           => \A n \in 1..Len(r.args) :
                 \A m \in 1..Len(r.args[n].observations) :
                    Cardinality(ObsRows(getEntityId(db, r.args[n].name),
                                        r.args[n].observations[m])) = 1
        /\ (r.op = "createEntities" /\ r.nested
            /\ r.pc \in {"ao_embed", "vec_begin", "vec_row", "vec_commit", "vec_rollback"})
           => \A m \in 1..Len(r.args[r.i].observations) :
                 Cardinality(ObsRows(r.entityId, r.args[r.i].observations[m])) = 1

\* the entity was stored with "x"; the call supplied "x" and "y" and added "y"
C12_Witness ==
    LET r == proc[1] IN
    /\ r.op = "createEntities" /\ r.nested /\ r.created = <<>> /\ r.pc = "vec_begin"
    /\ r.args[r.i].observations = <<"x", "y">>
    /\ r.before = {"x"} /\ r.added = <<"y">>

RECURSIVE Within(_, _, _)
\* the entities at most n hops from a in the undirected relation graph
Within(d, a, n) ==
    IF n = 0 THEN {a}
    ELSE LET S == Within(d, a, n - 1)
         IN  S \cup Endpoints(getRelationsForEntityIds(d, S))

\* the shortest hop count from a to b when it is at most maxDepth
ExactDistance(d, a, b, maxDepth) ==
    IF a = b THEN 0
    ELSE IF \E n \in 1..maxDepth : b \in Within(d, a, n)
    THEN CHOOSE n \in 1..maxDepth :
            b \in Within(d, a, n) /\ \A m \in 1..(n - 1) : b \notin Within(d, a, m)
    ELSE NullDistance

\* C13: on an unchanged graph and in every cache state that preloadGraphSubset
\* and earlier distance calls lead to, calculateGraphDistance(a, b, maxDepth)
\* returns the exact shortest hop count when it is at most maxDepth, else null.
C13_ExactBoundedDistance ==
    cret.op = "calculateGraphDistance"
    => cret.ret = ExactDistance(db, Number(cret.from), Number(cret.to), cret.maxDepth)

\* C14: whenever a result (a hop count or null) is cached for (a, b), the
\* same result is cached for (b, a).
C14_DistanceCacheSymmetric ==
    \A e \in graphCache.distance :
        \E f \in graphCache.distance :
            f.from = e.to /\ f.to = e.from /\ f.distance = e.distance

\* C15: no result of calculateGraphDistance or getContextualDistances is
\* derived from an adjacency or distance entry cached more than the TTL
\* before the call.
C15_StalenessBoundedByTtl ==
    cret.op \in {"calculateGraphDistance", "getContextualDistances"}
    => cret.at - cret.oldest <= CacheTtl

\* C16: concurrent first-use calls of embedTexts load the embedding model
\* exactly once: at most one load is ever in progress or completed.
C16_ModelLoadedOnce == pipelineLoads <= 1

\* the accessCount and lastAccessed of an entity, as fetchEntitiesWithDetails
\* reports them
AccessCount(d, entityId) == Sum(d, {o.id : o \in ObservationsOf(d, {entityId})})
LastAccessed(d, entityId) == MaxLastAccessed(d, {o.id : o \in ObservationsOf(d, {entityId})})

\* the entities of the store that a finished searchNodes call scored and returned
ScoredAndReturned ==
    {e \in db.entities :
        /\ e.id \in {Number(search.scored[n].entity_id) : n \in 1..Len(search.scored)}
        /\ e.name \in {search.result.entities[n].name
                          : n \in 1..Len(search.result.entities)}}

\* C17: when a scored search has returned, the accessCount of every entity it
\* scored and returned is one more than it was when the search was made, and
\* the entity's lastAccessed is the time of the search.
C17_AccessCountPlusOne ==
    (search.op = "searchNodes" /\ search.pc = "done") =>
        \A e \in ScoredAndReturned :
            /\ AccessCount(db, e.id) = AccessCount(search.before, e.id) + 1
            /\ LastAccessed(db, e.id) = search.at

\* a step in which repository.openNodes or repository.readGraph runs
ReadStep ==
    \/ search.pc = "idle" /\ search'.op \in {"openNodes", "readGraph"}
    \/ search.pc = "as_open"

\* C18: openNodes and readGraph change no accessCount and no lastAccessed:
\* across every step that runs one of them, each observation keeps its
\* access_count and last_accessed, and so does each entity.
C18_ReadsLeaveTelemetry ==
    [][ReadStep =>
          /\ \A o \in db.observations \cup db'.observations :
                /\ StatsOf(db', o.id).access_count = StatsOf(db, o.id).access_count
                /\ StatsOf(db', o.id).last_accessed = StatsOf(db, o.id).last_accessed
          /\ \A id \in EntityIds(db) \cup EntityIds(db') :
                /\ AccessCount(db', id) = AccessCount(db, id)
                /\ LastAccessed(db', id) = LastAccessed(db, id)]_vars

\* openNodes or readGraph has returned entities that a search had accessed before
C18_Witness ==
    /\ search.op \in {"openNodes", "readGraph"}
    /\ search.pc = "done"
    /\ \E n \in 1..Len(search.result.entities) :
          \E e \in db.entities : /\ e.name = search.result.entities[n].name
                                 /\ AccessCount(db, e.id) > 0
                                 /\ LastAccessed(db, e.id) # NullTime

\* the final score #applyScoring computed for the entity of that name
ScoreOf(name) ==
    (CHOOSE row \in SeqRange(search.scored) : row.name = name).score

\* C19: the entities searchNodes returns are in descending order of the final
\* relevance score the search computed for them.
C19_DescendingScore ==
    (search.op = "searchNodes" /\ search.pc = "done") =>
        \A m, n \in 1..Len(search.result.entities) :
            m < n => ScoreOf(search.result.entities[m].name)
                        >= ScoreOf(search.result.entities[n].name)

\* the entities of the store d that match the query in that mode: by keyword,
\* or by an embedding within the distance cap, or (hybrid) by either
Matches(d, mode, query) ==
    LET fts == {o.entity_id : o \in {o \in d.observations : FtsMatch(o.content, query)}}
        near == {r.entity_id : r \in {r \in VecDistances(d, Embed(query)) :
                                        r.distance <= DistanceCap}}
    IN  EntityIds(d) \cap (CASE mode = "keyword" -> keywordSearch(backend, d, query)
                             [] mode = "semantic" -> near
                             [] OTHER -> near \cup fts)

\* a searchNodes call has ended, and nothing in the store matched it
EndedWithoutMatch ==
    /\ search.op = "searchNodes"
    /\ search.pc \in {"done", "raised"}
    /\ Matches(search.before, search.mode, search.query) = {}

ReturnedEmpty == search.pc = "done" /\ search.err = "" /\ search.result = EmptyResult

SemanticCandidates(d, query) == VecDistances(d, Embed(query))

\* the names of the entities the finished call returned
ReturnedNames ==
    {search.result.entities[n].name : n \in 1..Len(search.result.entities)}

SemanticDone ==
    search.op = "searchNodes" /\ search.mode = "semantic" /\ search.pc = "done"

KeywordOnly(d, query) ==
    {o.entity_id : o \in {o \in d.observations : FtsMatch(o.content, query)}}
    \ {r.entity_id : r \in {r \in SemanticCandidates(d, query) :
                                2 * r.distance <= 3 * DistanceCap}}

\* the merged rows of a hybrid search of the store d, before sort and cut
MergedRows(d, query) ==
    HybridRows(d, query,
               CHOOSE s \in Perms(SemanticCandidates(d, query)) : TRUE, DistanceCap)

HybridDone ==
    search.op = "searchNodes" /\ search.mode = "hybrid" /\ search.pc = "done"

KeywordDone ==
    search.op = "searchNodes" /\ search.mode = "keyword" /\ search.pc = "done"

\* the entities of the store d that have an observation matching the query
\* in full text, or whose name or type contains the query in any case
KeywordMatches(d, query) ==
    {e \in d.entities :
        \/ \E o \in d.observations : o.entity_id = e.id /\ FtsMatch(o.content, query)
        \/ Lower(e.name) = Lower(query)
        \/ Lower(e.entityType) = Lower(query)}

\* C23: a keyword search returns exactly the entities that have an
\* observation matching the query in full text or whose name or type
\* contains the query, case-insensitively.
C23_KeywordExact ==
    KeywordDone =>
        ReturnedNames = {e.name : e \in KeywordMatches(search.before, search.query)}

\* a setImportance call has returned its object
SetImportanceDone == imp.pc = "done"

\* the importance stored with each observation of the store d
StoredImportance(d) == [id \in {o.id : o \in d.observations} |-> StatsOf(d, id).importance]

\* C24: setImportance with a name that no entity has returns
\* {success: false} with an error that names the entity; it does not raise
\* (the call ends by returning), and no stored importance changes.
C24_UnknownEntityFails ==
    (SetImportanceDone /\ getEntityId(imp.before, imp.entityName) = Null) =>
        /\ imp.ret.success = FALSE
        /\ \E i \in DOMAIN imp.ret.error : imp.ret.error[i] = imp.entityName
        /\ StoredImportance(db) = StoredImportance(imp.before)

\* setImportance has returned for a name that no entity has, while another
\* entity's observations carry a level set before
C24_Witness ==
    /\ SetImportanceDone
    /\ getEntityId(imp.before, imp.entityName) = Null
    /\ imp.ret.success = FALSE
    /\ \E o \in db.observations : StatsOf(db, o.id).importance = "critical"

\* C25: setImportance with a level of the enum, on any entity that exists,
\* returns {success: true}.
C25_ValidLevelSucceeds ==
    (/\ SetImportanceDone
     /\ getEntityId(imp.before, imp.entityName) # Null
     /\ imp.importance \in ImportanceLevel)
        => imp.ret.success = TRUE

\* C26: after setImportance(name, level) has succeeded, a scored search
\* that returns the entity, with no other setImportance in between, scores
\* it with the weight of level as its importance component.
C26_SearchUsesSetLevel ==
    (search.op = "searchNodes" /\ search.pc = "done") =>
        \A n \in 1..Len(search.scored) :
            (/\ search.scored[n].name \in ReturnedNames
             /\ imp.lastSet[search.scored[n].name] # NoLevel)
                => getImportanceScore(search.scored[n].importance)
                      = getImportanceScore(imp.lastSet[search.scored[n].name])

\* C27: a backend failure during searchNodes is raised to the caller: once
\* a repository request of the search has failed, the search has ended by
\* raising, and it goes no further with the error caught.
C27_BackendFailureRaised ==
    (search.op = "searchNodes" /\ search.swallowed # "") => search.pc = "raised"

\* the entities of the store d that have an accessed observation
AccessedIds(d) == {r.entity_id : r \in AccessedRows(d)}

\* C28: the recent-entities cache holds at most 10 entity ids; a call of
\* getRecentlyAccessedEntities that finds the cached list older than the TTL
\* (or no valid list) asks the backend, and the list it then caches is the
\* backend's, most recently accessed first: no entity left out was accessed
\* later than one that is in it.
C28_RecentCacheBoundedFresh ==
    /\ Len(contextCache.recentEntities) <= MaxRecentEntities
    /\ cret.op = "getRecentlyAccessedEntities" =>
          /\ cret.stale => cret.fetched
          /\ (cret.fetched /\ cret.err = "") =>
                LET list == contextCache.recentEntities
                IN  /\ contextCache.lastUpdate = cret.at
                    /\ cret.ret = Slice(list, cret.limit)
                    /\ Len(list) = Min(Min(cret.limit, MaxRecentEntities),
                                       Cardinality(AccessedIds(db)))
                    /\ \A m, n \in 1..Len(list) :
                          m < n => /\ list[m] # list[n]
                                   /\ LastAccessed(db, list[m]) >= LastAccessed(db, list[n])
                    /\ \A id \in AccessedIds(db) \ SeqRange(list) :
                          \A n \in 1..Len(list) :
                              LastAccessed(db, id) <= LastAccessed(db, list[n])

\* a call found a list cached longer ago than the TTL and fetched again,
\* from a store of more than 10 accessed entities: the cache holds 10
C28_Witness ==
    /\ cret.op = "getRecentlyAccessedEntities"
    /\ cret.cachedAt # NullTime
    /\ cret.at - cret.cachedAt >= contextCache.ttl
    /\ cret.fetched
    /\ Cardinality(AccessedIds(db)) > MaxRecentEntities
    /\ Len(contextCache.recentEntities) = MaxRecentEntities

\* what the recent-entities cache gives the instance "this" at time t: the
\* cached list while it is valid, and nothing otherwise
CachedRecent(cc, t) ==
    IF isCacheValid(cc, t) /\ Len(cc.recentEntities) > 0 THEN <<cc.recentEntities>>
    ELSE <<>>

\* a step of the instance "peer"
PeerStep ==
    \/ \E limit \in {5, MaxRecentEntities + 2} : GetRecentlyAccessedEntities("peer", limit)
    \/ UpdateAccessStats("peer", {1})
    \/ InstanceClearCache("peer")
    \/ \E ttl \in {CacheTtl, CacheTtl + 1} : SetCacheTTL("peer", ttl)
    \/ InstancePreloadGraphSubset("peer", {String(1)}, 1)

\* C29: the recent-entities, adjacency and distance caches belong to the
\* ContextManager instance: no operation of another instance changes what
\* the caches of this one return.
C29_InstancesIsolated ==
    [][PeerStep => /\ CachedRecent(contextCache', now') = CachedRecent(contextCache, now)
                   /\ graphCache' = graphCache]_vars

\* C30: getContextualScore is 1.5 at distance 0; for 0 < d <= maxDistance
\* (3) it is max(0.5, 1.5 - 0.2 d) and does not increase with d; it is 1.0
\* when the distance is null or greater than maxDistance.
C30_ContextualScore ==
    cret.op = "getContextualScore" =>
        LET d == cret.distance
            e == cret.farther
        IN  /\ d = 0 => cret.ret = 1500000
            /\ (0 < d /\ d <= 3) => cret.ret = Max(500000, 1500000 - 200000 * d)
            /\ (0 < d /\ d <= e /\ e <= 3) => cret.ret >= cret.retFarther
            /\ (d = NullDistance \/ d > 3) => cret.ret = 1000000

\* the score of a distance beyond maxDistance and that of one within it
\* have been computed
C30_Witness ==
    /\ cret.op = "getContextualScore"
    /\ cret.distance = 2
    /\ cret.farther = 4
    /\ cret.ret = 1100000
    /\ cret.retFarther = 1000000

\* the shortest hop count from the candidate to the nearest of the context
\* entities when it is at most maxDepth, null when none is that near
NearestDistance(d, candidate, context, maxDepth) ==
    LET near == {ExactDistance(d, c, candidate, maxDepth) : c \in context} \ {NullDistance}
    IN  IF near = {} THEN NullDistance
        ELSE CHOOSE n \in near : \A m \in near : n <= m

\* a scored search has its context distances
ScoredSearch ==
    /\ search.op = "searchNodes"
    /\ search.pc \in {"as_update", "as_open", "done"}
    /\ Len(search.scored) > 0

\* C31: in a scored search the context distance of every candidate is the
\* shortest hop count from it to the nearest recently accessed entity (0 when
\* the candidate is itself recently accessed), or null when no recently
\* accessed entity lies within the max depth.
C31_NearestContextDistance ==
    ScoredSearch =>
        \A n \in 1..Len(search.scored) :
            search.scored[n].contextDistance
                = NearestDistance(db, Number(search.scored[n].entity_id),
                                  SeqRange(search.recent), DefaultMaxDepth)

\* C32: every stored vector row belongs to a stored observation, after any
\* sequence of operations (deleteObservations included), so that no deleted
\* observation is a candidate of a semantic or hybrid search.
C32_VectorsOfStoredObservations ==
    \A v \in db.obs_vec :
        \E o \in db.observations :
            o.id = v.observation_id /\ o.entity_id = v.entity_id

\* C33: when includeScoreDetails is set, the score attached to each entity of
\* the searchNodes result is the one computed for that same entity.
C33_ScoreOfSameEntity ==
    (search.op = "searchNodes" /\ search.pc = "done" /\ search.includeScoreDetails) =>
        \A n \in 1..Len(search.result.entities) :
            \E m \in 1..Len(search.scored) :
                /\ search.scored[m].name = search.result.entities[n].name
                /\ search.scored[m].score = search.result.entities[n].score

\* C34: every stored observation importance is one of critical, important,
\* normal, temporary, deprecated; setImportance with any other level changes
\* no stored importance and reports failure.
C34_ImportanceInEnum ==
    /\ \A o \in db.observations : StatsOf(db, o.id).importance \in ImportanceLevel
    /\ (SetImportanceDone /\ imp.importance \notin ImportanceLevel) =>
          /\ imp.ret.success = FALSE
          /\ StoredImportance(db) = StoredImportance(imp.before)

\* setImportance has returned the error of a level outside the enum for an
\* entity that exists and has observations
C34_Witness ==
    /\ SetImportanceDone
    /\ imp.importance = "urgent"
    /\ imp.entityId # Null
    /\ ObservationsOf(db, {imp.entityId}) # {}
    /\ imp.ret.error = InvalidLevel("urgent")

\* C35: calculateGraphDistance(a, b, maxDepth) never returns a number
\* greater than the maxDepth of that call, whether it comes from a fresh
\* traversal or from the distance cache.
C35_DistanceWithinMaxDepth ==
    cret.op = "calculateGraphDistance" =>
        (cret.ret = NullDistance \/ cret.ret <= cret.maxDepth)

\* C36: getRecentlyAccessedEntities(limit) returns the min(limit, 10) most
\* recently accessed entity ids (fewer only when fewer entities were ever
\* accessed), also when the cached list was filled by an earlier call with a
\* smaller limit.  (No step of RecentSpec changes which entities have been
\* accessed.)
C36_LimitManyRecent ==
    (cret.op = "getRecentlyAccessedEntities" /\ cret.err = "") =>
        /\ Len(cret.ret) = Min(Min(cret.limit, MaxRecentEntities),
                               Cardinality(AccessedIds(db)))
        /\ \A id \in AccessedIds(db) \ SeqRange(cret.ret) :
              \A n \in 1..Len(cret.ret) :
                  LastAccessed(db, id) <= LastAccessed(db, cret.ret[n])

\* C37: db() returns only a fully initialized handle: no caller receives
\* the handle before table creation and migrations have completed, under
\* concurrent first calls and after a failed initialization, and the
\* database is opened once per manager.
C37_InitializedHandleOnce ==
    /\ \A c \in DbCallers :
          dbm.caller[c].got = "handle" => dbm.caller[c].gotReady
    /\ dbm.opens <= 1

\* the migrate call has ended after one of its steps failed
MigrateFailed == mig.op = "migrate" /\ mig.pc = "done" /\ mig.failed

\* C38: migrate is atomic: if a migration step of a migrate call fails, every
\* schema change and every migrations-table record of that call is rolled
\* back, the current version is unchanged, and the error is raised.
C38_MigrateAtomic ==
    MigrateFailed =>
        /\ mig.ret = "raised"
        /\ mig.schema = mig.before.schema
        /\ mig.records = mig.before.records
        /\ getCurrentVersion(mig.records) = getCurrentVersion(mig.before.records)
        /\ mig.tx = <<>>

\* a migrate call applied and recorded one migration, then the up of the
\* next one failed
C38_Witness ==
    /\ MigrateFailed
    /\ mig.applied # <<>>
    /\ mig.ret = "raised"

\* the versions of the registry above low and up to high
VersionsIn(low, high) == {v \in SeqRange(Registry) : v > low /\ v <= high}

\* C39: after migrate(migrations, target) succeeds the current version is
\* target (the latest version when target is null) and exactly the
\* migrations with version in (previous version, target] were applied, in
\* ascending order; after rollback(migrations, target) succeeds with target
\* below the current version (0 included) the current version is target
\* and exactly the migrations above target were undone, in descending order.
\* (For migrate the targets taken are null and the versions from the
\* previous version up to the latest: migrate never goes down, and it has no
\* migration past the latest.)
C39_VersionIsTarget ==
    LET previous == getCurrentVersion(mig.before.records)
        current == getCurrentVersion(mig.records)
    IN  /\ (/\ mig.op = "migrate" /\ mig.pc = "done" /\ mig.ret = "ok"
            /\ \/ mig.target = NullVersion
               \/ mig.target >= previous /\ mig.target <= LatestVersion(Registry)) =>
              LET target == IF mig.target = NullVersion
                            THEN LatestVersion(Registry) ELSE mig.target
              IN  /\ current = target
                  /\ mig.applied = SortAscending(VersionsIn(previous, target))
        /\ (mig.op = "rollback" /\ mig.pc = "done" /\ mig.ret = "ok"
               /\ mig.target < previous) =>
              /\ current = mig.target
              /\ mig.applied = SortDescending(VersionsIn(mig.target, previous))

====
